---- MODULE Spec2Model ----
(***************************************************************************)
(* A model of gopkgdoc's package index (index/index.go): the identifier    *)
(* sets, the term encoding, the derivation of a package's terms, and the   *)
(* Index operations Put, Get, Remove, Query and Subdirs, first as atomic   *)
(* calls (Spec) and then as threads that step through each method's        *)
(* statements under the index's sync.RWMutex (ThreadSpec).                 *)
(*                                                                         *)
(* Go strings are modelled as sequences of bytes, each byte a one-letter   *)
(* TLA+ string: "r/a" is <<"r", "/", "a">> and "" is << >>.  Slice and     *)
(* string indices are 0-based in the code and are kept 0-based in the      *)
(* results of Index and LastIndex; sequences themselves are 1-based.       *)
(***************************************************************************)
EXTENDS Integers, Sequences, FiniteSets, TLC

(***************************************************************************)
(* Bytes and strings                                                       *)
(***************************************************************************)

LowerLetters ==
    << "a", "b", "c", "d", "e", "f", "g", "h", "i", "j", "k", "l", "m",
       "n", "o", "p", "q", "r", "s", "t", "u", "v", "w", "x", "y", "z" >>

UpperLetters ==
    << "A", "B", "C", "D", "E", "F", "G", "H", "I", "J", "K", "L", "M",
       "N", "O", "P", "Q", "R", "S", "T", "U", "V", "W", "X", "Y", "Z" >>

\* The zero byte that pads a short term.
NUL == "\\0"

\* The 256 bytes in the order of their values, from 0: a printable ASCII
\* byte but the grave accent is written as itself, NUL, tab, line feed, form
\* feed and carriage return by their escapes, and any other byte by x and
\* its two hex digits.
Bytes ==
    << "\\0", "x01", "x02", "x03", "x04", "x05", "x06", "x07",
       "x08", "\t", "\n", "x0B", "\f", "\r", "x0E", "x0F",
       "x10", "x11", "x12", "x13", "x14", "x15", "x16", "x17",
       "x18", "x19", "x1A", "x1B", "x1C", "x1D", "x1E", "x1F",
       " ", "!", "\"", "#", "$", "%", "&", "'",
       "(", ")", "*", "+", ",", "-", ".", "/",
       "0", "1", "2", "3", "4", "5", "6", "7",
       "8", "9", ":", ";", "<", "=", ">", "?",
       "@", "A", "B", "C", "D", "E", "F", "G",
       "H", "I", "J", "K", "L", "M", "N", "O",
       "P", "Q", "R", "S", "T", "U", "V", "W",
       "X", "Y", "Z", "[", "\\", "]", "^", "_",
       "x60", "a", "b", "c", "d", "e", "f", "g",
       "h", "i", "j", "k", "l", "m", "n", "o",
       "p", "q", "r", "s", "t", "u", "v", "w",
       "x", "y", "z", "{", "|", "}", "~", "x7F",
       "x80", "x81", "x82", "x83", "x84", "x85", "x86", "x87",
       "x88", "x89", "x8A", "x8B", "x8C", "x8D", "x8E", "x8F",
       "x90", "x91", "x92", "x93", "x94", "x95", "x96", "x97",
       "x98", "x99", "x9A", "x9B", "x9C", "x9D", "x9E", "x9F",
       "xA0", "xA1", "xA2", "xA3", "xA4", "xA5", "xA6", "xA7",
       "xA8", "xA9", "xAA", "xAB", "xAC", "xAD", "xAE", "xAF",
       "xB0", "xB1", "xB2", "xB3", "xB4", "xB5", "xB6", "xB7",
       "xB8", "xB9", "xBA", "xBB", "xBC", "xBD", "xBE", "xBF",
       "xC0", "xC1", "xC2", "xC3", "xC4", "xC5", "xC6", "xC7",
       "xC8", "xC9", "xCA", "xCB", "xCC", "xCD", "xCE", "xCF",
       "xD0", "xD1", "xD2", "xD3", "xD4", "xD5", "xD6", "xD7",
       "xD8", "xD9", "xDA", "xDB", "xDC", "xDD", "xDE", "xDF",
       "xE0", "xE1", "xE2", "xE3", "xE4", "xE5", "xE6", "xE7",
       "xE8", "xE9", "xEA", "xEB", "xEC", "xED", "xEE", "xEF",
       "xF0", "xF1", "xF2", "xF3", "xF4", "xF5", "xF6", "xF7",
       "xF8", "xF9", "xFA", "xFB", "xFC", "xFD", "xFE", "xFF" >>

\* The byte value of a character, for the byte-wise string comparison of
\* byImportPath.Less: its place in Bytes, looked up among the letters first.
ByteCode(c) ==
    IF \E i \in DOMAIN LowerLetters : LowerLetters[i] = c
    THEN 96 + (CHOOSE i \in DOMAIN LowerLetters : LowerLetters[i] = c)
    ELSE IF \E i \in DOMAIN UpperLetters : UpperLetters[i] = c
    THEN 64 + (CHOOSE i \in DOMAIN UpperLetters : UpperLetters[i] = c)
    ELSE (CHOOSE i \in DOMAIN Bytes : Bytes[i] = c) - 1

\* The bytes above ASCII.
HighBytes == {Bytes[i] : i \in 129..256}

\* utf8.RuneError, U+FFFD.
RuneError == 65533

\* utf8.DecodeRuneInString(s[i:]) for i within s: the rune and its width in
\* bytes; RuneError and width 1 for a byte that begins no valid encoding
\* (a stray continuation byte, a cut or overlong sequence, a surrogate, a
\* value above U+10FFFF).
decodeRune(s, i) ==
    LET at(k) == IF k <= Len(s) THEN ByteCode(s[k]) ELSE 0
        dec(b0, b1, b2, b3) ==
            LET lo == IF b0 = 224 THEN 160 ELSE IF b0 = 240 THEN 144 ELSE 128
                hi == IF b0 = 237 THEN 159 ELSE IF b0 = 244 THEN 143 ELSE 191
                c1 == b1 >= lo /\ b1 <= hi
                c2 == b2 >= 128 /\ b2 <= 191
                c3 == b3 >= 128 /\ b3 <= 191
            IN  IF b0 < 128
                THEN [rune |-> b0, width |-> 1]
                ELSE IF b0 >= 194 /\ b0 <= 223 /\ c1
                THEN [rune |-> (b0 % 32) * 64 + (b1 % 64), width |-> 2]
                ELSE IF b0 >= 224 /\ b0 <= 239 /\ c1 /\ c2
                THEN [rune |-> (b0 % 16) * 4096 + (b1 % 64) * 64 + (b2 % 64),
                      width |-> 3]
                ELSE IF b0 >= 240 /\ b0 <= 244 /\ c1 /\ c2 /\ c3
                THEN [rune |-> (b0 % 8) * 262144 + (b1 % 64) * 4096
                                   + (b2 % 64) * 64 + (b3 % 64),
                      width |-> 4]
                ELSE [rune |-> RuneError, width |-> 1]
    IN  dec(at(i), at(i + 1), at(i + 2), at(i + 3))

\* The UTF-8 encoding of a rune that is no surrogate (utf8.EncodeRune).
encodeRune(r) ==
    LET codes == IF r < 128
                 THEN << r >>
                 ELSE IF r < 2048
                 THEN << 192 + (r \div 64), 128 + (r % 64) >>
                 ELSE IF r < 65536
                 THEN << 224 + (r \div 4096), 128 + ((r \div 64) % 64), 128 + (r % 64) >>
                 ELSE << 240 + (r \div 262144), 128 + ((r \div 4096) % 64),
                         128 + ((r \div 64) % 64), 128 + (r % 64) >>
        bytes(cs) == [k \in 1..Len(cs) |-> Bytes[cs[k] + 1]]
    IN  bytes(codes)

\* The case table of unicode.ToLower (Unicode 14.0): << lo, hi, stride,
\* delta >> stands for the runes lo, lo + stride, ... up to hi, each of which
\* has the lower case rune delta above it.
LowerRanges ==
    {<< 65, 90, 1, 32 >>, << 192, 214, 1, 32 >>, << 216, 222, 1, 32 >>,
     << 256, 302, 2, 1 >>, << 304, 304, 1, -199 >>, << 306, 310, 2, 1 >>,
     << 313, 327, 2, 1 >>, << 330, 374, 2, 1 >>, << 376, 376, 1, -121 >>,
     << 377, 381, 2, 1 >>, << 385, 385, 1, 210 >>, << 386, 388, 2, 1 >>,
     << 390, 390, 1, 206 >>, << 391, 391, 1, 1 >>, << 393, 394, 1, 205 >>,
     << 395, 395, 1, 1 >>, << 398, 398, 1, 79 >>, << 399, 399, 1, 202 >>,
     << 400, 400, 1, 203 >>, << 401, 401, 1, 1 >>, << 403, 403, 1, 205 >>,
     << 404, 404, 1, 207 >>, << 406, 406, 1, 211 >>, << 407, 407, 1, 209 >>,
     << 408, 408, 1, 1 >>, << 412, 412, 1, 211 >>, << 413, 413, 1, 213 >>,
     << 415, 415, 1, 214 >>, << 416, 420, 2, 1 >>, << 422, 422, 1, 218 >>,
     << 423, 423, 1, 1 >>, << 425, 425, 1, 218 >>, << 428, 428, 1, 1 >>,
     << 430, 430, 1, 218 >>, << 431, 431, 1, 1 >>, << 433, 434, 1, 217 >>,
     << 435, 437, 2, 1 >>, << 439, 439, 1, 219 >>, << 440, 440, 1, 1 >>,
     << 444, 444, 1, 1 >>, << 452, 452, 1, 2 >>, << 453, 453, 1, 1 >>,
     << 455, 455, 1, 2 >>, << 456, 456, 1, 1 >>, << 458, 458, 1, 2 >>,
     << 459, 475, 2, 1 >>, << 478, 494, 2, 1 >>, << 497, 497, 1, 2 >>,
     << 498, 500, 2, 1 >>, << 502, 502, 1, -97 >>, << 503, 503, 1, -56 >>,
     << 504, 542, 2, 1 >>, << 544, 544, 1, -130 >>, << 546, 562, 2, 1 >>,
     << 570, 570, 1, 10795 >>, << 571, 571, 1, 1 >>, << 573, 573, 1, -163 >>,
     << 574, 574, 1, 10792 >>, << 577, 577, 1, 1 >>, << 579, 579, 1, -195 >>,
     << 580, 580, 1, 69 >>, << 581, 581, 1, 71 >>, << 582, 590, 2, 1 >>,
     << 880, 882, 2, 1 >>, << 886, 886, 1, 1 >>, << 895, 895, 1, 116 >>,
     << 902, 902, 1, 38 >>, << 904, 906, 1, 37 >>, << 908, 908, 1, 64 >>,
     << 910, 911, 1, 63 >>, << 913, 929, 1, 32 >>, << 931, 939, 1, 32 >>,
     << 975, 975, 1, 8 >>, << 984, 1006, 2, 1 >>, << 1012, 1012, 1, -60 >>,
     << 1015, 1015, 1, 1 >>, << 1017, 1017, 1, -7 >>, << 1018, 1018, 1, 1 >>,
     << 1021, 1023, 1, -130 >>, << 1024, 1039, 1, 80 >>,
     << 1040, 1071, 1, 32 >>, << 1120, 1152, 2, 1 >>, << 1162, 1214, 2, 1 >>,
     << 1216, 1216, 1, 15 >>, << 1217, 1229, 2, 1 >>, << 1232, 1326, 2, 1 >>,
     << 1329, 1366, 1, 48 >>, << 4256, 4293, 1, 7264 >>,
     << 4295, 4295, 1, 7264 >>, << 4301, 4301, 1, 7264 >>,
     << 5024, 5103, 1, 38864 >>, << 5104, 5109, 1, 8 >>,
     << 7312, 7354, 1, -3008 >>, << 7357, 7359, 1, -3008 >>,
     << 7680, 7828, 2, 1 >>, << 7838, 7838, 1, -7615 >>,
     << 7840, 7934, 2, 1 >>, << 7944, 7951, 1, -8 >>,
     << 7960, 7965, 1, -8 >>, << 7976, 7983, 1, -8 >>,
     << 7992, 7999, 1, -8 >>, << 8008, 8013, 1, -8 >>,
     << 8025, 8031, 2, -8 >>, << 8040, 8047, 1, -8 >>,
     << 8072, 8079, 1, -8 >>, << 8088, 8095, 1, -8 >>,
     << 8104, 8111, 1, -8 >>, << 8120, 8121, 1, -8 >>,
     << 8122, 8123, 1, -74 >>, << 8124, 8124, 1, -9 >>,
     << 8136, 8139, 1, -86 >>, << 8140, 8140, 1, -9 >>,
     << 8152, 8153, 1, -8 >>, << 8154, 8155, 1, -100 >>,
     << 8168, 8169, 1, -8 >>, << 8170, 8171, 1, -112 >>,
     << 8172, 8172, 1, -7 >>, << 8184, 8185, 1, -128 >>,
     << 8186, 8187, 1, -126 >>, << 8188, 8188, 1, -9 >>,
     << 8486, 8486, 1, -7517 >>, << 8490, 8490, 1, -8383 >>,
     << 8491, 8491, 1, -8262 >>, << 8498, 8498, 1, 28 >>,
     << 8544, 8559, 1, 16 >>, << 8579, 8579, 1, 1 >>,
     << 9398, 9423, 1, 26 >>, << 11264, 11311, 1, 48 >>,
     << 11360, 11360, 1, 1 >>, << 11362, 11362, 1, -10743 >>,
     << 11363, 11363, 1, -3814 >>, << 11364, 11364, 1, -10727 >>,
     << 11367, 11371, 2, 1 >>, << 11373, 11373, 1, -10780 >>,
     << 11374, 11374, 1, -10749 >>, << 11375, 11375, 1, -10783 >>,
     << 11376, 11376, 1, -10782 >>, << 11378, 11378, 1, 1 >>,
     << 11381, 11381, 1, 1 >>, << 11390, 11391, 1, -10815 >>,
     << 11392, 11490, 2, 1 >>, << 11499, 11501, 2, 1 >>,
     << 11506, 11506, 1, 1 >>, << 42560, 42604, 2, 1 >>,
     << 42624, 42650, 2, 1 >>, << 42786, 42798, 2, 1 >>,
     << 42802, 42862, 2, 1 >>, << 42873, 42875, 2, 1 >>,
     << 42877, 42877, 1, -35332 >>, << 42878, 42886, 2, 1 >>,
     << 42891, 42891, 1, 1 >>, << 42893, 42893, 1, -42280 >>,
     << 42896, 42898, 2, 1 >>, << 42902, 42920, 2, 1 >>,
     << 42922, 42922, 1, -42308 >>, << 42923, 42923, 1, -42319 >>,
     << 42924, 42924, 1, -42315 >>, << 42925, 42925, 1, -42305 >>,
     << 42926, 42926, 1, -42308 >>, << 42928, 42928, 1, -42258 >>,
     << 42929, 42929, 1, -42282 >>, << 42930, 42930, 1, -42261 >>,
     << 42931, 42931, 1, 928 >>, << 42932, 42946, 2, 1 >>,
     << 42948, 42948, 1, -48 >>, << 42949, 42949, 1, -42307 >>,
     << 42950, 42950, 1, -35384 >>, << 42951, 42953, 2, 1 >>,
     << 42960, 42960, 1, 1 >>, << 42966, 42968, 2, 1 >>,
     << 42997, 42997, 1, 1 >>, << 65313, 65338, 1, 32 >>,
     << 66560, 66599, 1, 40 >>, << 66736, 66771, 1, 40 >>,
     << 66928, 66964, 2, 39 >>, << 66929, 66937, 2, 39 >>,
     << 66941, 66953, 2, 39 >>, << 66957, 66961, 2, 39 >>,
     << 66965, 66965, 1, 39 >>, << 68736, 68786, 1, 64 >>,
     << 71840, 71871, 1, 32 >>, << 93760, 93791, 1, 32 >>,
     << 125184, 125217, 1, 34 >>}

\* The range table unicode.Upper (Unicode 14.0): << lo, hi, stride >> stands
\* for the upper case letters lo, lo + stride, ... up to hi.
UpperRanges ==
    {<< 65, 90, 1 >>, << 192, 214, 1 >>, << 216, 222, 1 >>,
     << 256, 310, 2 >>, << 313, 327, 2 >>, << 330, 376, 2 >>,
     << 377, 381, 2 >>, << 385, 386, 1 >>, << 388, 390, 2 >>,
     << 391, 395, 2 >>, << 394, 394, 1 >>, << 398, 401, 1 >>,
     << 403, 404, 1 >>, << 406, 408, 1 >>, << 412, 413, 1 >>,
     << 415, 416, 1 >>, << 418, 422, 2 >>, << 423, 425, 2 >>,
     << 428, 430, 2 >>, << 431, 439, 2 >>, << 434, 434, 1 >>,
     << 440, 440, 1 >>, << 444, 444, 1 >>, << 452, 452, 1 >>,
     << 455, 455, 1 >>, << 458, 458, 1 >>, << 461, 475, 2 >>,
     << 478, 494, 2 >>, << 497, 497, 1 >>, << 500, 562, 2 >>,
     << 503, 503, 1 >>, << 570, 571, 1 >>, << 573, 574, 1 >>,
     << 577, 581, 2 >>, << 580, 590, 2 >>, << 880, 882, 2 >>,
     << 886, 886, 1 >>, << 895, 895, 1 >>, << 902, 910, 2 >>,
     << 905, 905, 1 >>, << 911, 939, 2 >>, << 914, 928, 2 >>,
     << 932, 938, 2 >>, << 975, 975, 1 >>, << 978, 980, 1 >>,
     << 984, 1006, 2 >>, << 1012, 1012, 1 >>, << 1015, 1017, 2 >>,
     << 1018, 1018, 1 >>, << 1021, 1071, 1 >>, << 1120, 1152, 2 >>,
     << 1162, 1216, 2 >>, << 1217, 1229, 2 >>, << 1232, 1326, 2 >>,
     << 1329, 1366, 1 >>, << 4256, 4293, 1 >>, << 4295, 4295, 1 >>,
     << 4301, 4301, 1 >>, << 5024, 5109, 1 >>, << 7312, 7354, 1 >>,
     << 7357, 7359, 1 >>, << 7680, 7828, 2 >>, << 7838, 7934, 2 >>,
     << 7944, 7951, 1 >>, << 7960, 7965, 1 >>, << 7976, 7983, 1 >>,
     << 7992, 7999, 1 >>, << 8008, 8013, 1 >>, << 8025, 8031, 2 >>,
     << 8040, 8047, 1 >>, << 8120, 8123, 1 >>, << 8136, 8139, 1 >>,
     << 8152, 8155, 1 >>, << 8168, 8172, 1 >>, << 8184, 8187, 1 >>,
     << 8450, 8450, 1 >>, << 8455, 8455, 1 >>, << 8459, 8461, 1 >>,
     << 8464, 8466, 1 >>, << 8469, 8469, 1 >>, << 8473, 8477, 1 >>,
     << 8484, 8492, 2 >>, << 8491, 8493, 2 >>, << 8496, 8499, 1 >>,
     << 8510, 8511, 1 >>, << 8517, 8517, 1 >>, << 8579, 8579, 1 >>,
     << 11264, 11311, 1 >>, << 11360, 11364, 2 >>, << 11363, 11363, 1 >>,
     << 11367, 11375, 2 >>, << 11374, 11378, 2 >>, << 11381, 11381, 1 >>,
     << 11390, 11490, 2 >>, << 11391, 11391, 1 >>, << 11499, 11501, 2 >>,
     << 11506, 11506, 1 >>, << 42560, 42604, 2 >>, << 42624, 42650, 2 >>,
     << 42786, 42798, 2 >>, << 42802, 42862, 2 >>, << 42873, 42877, 2 >>,
     << 42878, 42886, 2 >>, << 42891, 42893, 2 >>, << 42896, 42898, 2 >>,
     << 42902, 42950, 2 >>, << 42923, 42925, 2 >>, << 42929, 42931, 2 >>,
     << 42949, 42953, 2 >>, << 42960, 42960, 1 >>, << 42966, 42968, 2 >>,
     << 42997, 42997, 1 >>, << 65313, 65338, 1 >>, << 66560, 66599, 1 >>,
     << 66736, 66771, 1 >>, << 66928, 66964, 2 >>, << 66929, 66937, 2 >>,
     << 66941, 66953, 2 >>, << 66957, 66961, 2 >>, << 66965, 66965, 1 >>,
     << 68736, 68786, 1 >>, << 71840, 71871, 1 >>, << 93760, 93791, 1 >>,
     << 119808, 119833, 1 >>, << 119860, 119885, 1 >>,
     << 119912, 119937, 1 >>, << 119964, 119966, 2 >>,
     << 119967, 119967, 1 >>, << 119970, 119970, 1 >>,
     << 119973, 119974, 1 >>, << 119977, 119980, 1 >>,
     << 119982, 119989, 1 >>, << 120016, 120041, 1 >>,
     << 120068, 120069, 1 >>, << 120071, 120074, 1 >>,
     << 120077, 120084, 1 >>, << 120086, 120092, 1 >>,
     << 120120, 120121, 1 >>, << 120123, 120126, 1 >>,
     << 120128, 120132, 1 >>, << 120134, 120134, 1 >>,
     << 120138, 120144, 1 >>, << 120172, 120197, 1 >>,
     << 120224, 120249, 1 >>, << 120276, 120301, 1 >>,
     << 120328, 120353, 1 >>, << 120380, 120405, 1 >>,
     << 120432, 120457, 1 >>, << 120488, 120512, 1 >>,
     << 120546, 120570, 1 >>, << 120604, 120628, 1 >>,
     << 120662, 120686, 1 >>, << 120720, 120744, 1 >>,
     << 120778, 120778, 1 >>, << 125184, 125217, 1 >>}

\* unicode.ToLower
toLowerRune(r) ==
    LET lower(hit) == IF hit = {} THEN r ELSE r + (CHOOSE e \in hit : TRUE)[4]
    IN  lower({e \in LowerRanges : e[1] <= r /\ r <= e[2] /\ (r - e[1]) % e[3] = 0})

\* unicode.IsUpper
isUpperRune(r) ==
    \E e \in UpperRanges : e[1] <= r /\ r <= e[2] /\ (r - e[1]) % e[3] = 0

\* The lower-case letter of each upper-case letter.
LowerOf ==
    [c \in {UpperLetters[i] : i \in DOMAIN UpperLetters} |->
        LowerLetters[CHOOSE i \in DOMAIN UpperLetters : UpperLetters[i] = c]]

\* unicode.ToLower on an ASCII byte.
ToLowerByte(c) == IF c \in DOMAIN LowerOf THEN LowerOf[c] ELSE c

\* strings.Map(unicode.ToLower, s) from byte i on: every rune is lowered and
\* encoded again, a byte that begins no valid encoding as RuneError.
RECURSIVE toLowerFrom(_, _)
toLowerFrom(s, i) ==
    LET lowered(d) == encodeRune(toLowerRune(d.rune)) \o toLowerFrom(s, i + d.width)
    IN  IF i > Len(s)
        THEN << >>
        ELSE IF s[i] \notin HighBytes
        THEN << ToLowerByte(s[i]) >> \o toLowerFrom(s, i + 1)
        ELSE lowered(decodeRune(s, i))

\* strings.ToLower
ToLower(s) ==
    IF \A i \in 1..Len(s) : s[i] \notin HighBytes
    THEN [i \in 1..Len(s) |-> ToLowerByte(s[i])]
    ELSE toLowerFrom(s, 1)

\* strings.HasPrefix
HasPrefix(s, prefix) ==
    Len(prefix) <= Len(s) /\ SubSeq(s, 1, Len(prefix)) = prefix

\* strings.Index(s, c) for a one-byte c: the 0-based index of the first c in
\* s, or -1.
Index(s, c) ==
    IF \E i \in 1..Len(s) : s[i] = c
    THEN (CHOOSE i \in 1..Len(s) : s[i] = c /\ \A j \in 1..(i - 1) : s[j] # c) - 1
    ELSE -1

\* strings.LastIndex(s, c) for a one-byte c: the 0-based index of the last c
\* in s, or -1.
LastIndex(s, c) ==
    IF \E i \in 1..Len(s) : s[i] = c
    THEN (CHOOSE i \in 1..Len(s) : s[i] = c /\ \A j \in (i + 1)..Len(s) : s[j] # c) - 1
    ELSE -1

\* The second result of path.Split: the text after the final slash.
pathSplitFile(s) == SubSeq(s, LastIndex(s, "/") + 2, Len(s))

\* s < t for Go strings: byte-wise lexicographic order.
StringLess(s, t) ==
    \E k \in 0..Len(s) :
        /\ k <= Len(t)
        /\ \A j \in 1..k : s[j] = t[j]
        /\ \/ k = Len(s) /\ k < Len(t)
           \/ k < Len(s) /\ k < Len(t) /\ ByteCode(s[k + 1]) < ByteCode(t[k + 1])

\* unicode.IsSpace on a rune of one byte: tab, line feed, vertical tab, form
\* feed, carriage return and space.
IsSpace(c) == c \in {"\t", "\n", "x0B", "\f", "\r", " "}

\* The UTF-8 encodings of the white space runes of more than one byte:
\* U+0085, U+00A0, U+1680, U+2000 to U+200A, U+2028, U+2029, U+202F, U+205F
\* and U+3000.
SpaceRunes ==
    {<< "xC2", "x85" >>, << "xC2", "xA0" >>, << "xE1", "x9A", "x80" >>,
     << "xE2", "x80", "xA8" >>, << "xE2", "x80", "xA9" >>,
     << "xE2", "x80", "xAF" >>, << "xE2", "x81", "x9F" >>,
     << "xE3", "x80", "x80" >>}
    \cup {<< "xE2", "x80", Bytes[129 + k] >> : k \in 0..10}

\* The first bytes of SpaceRunes.
SpaceLeads == {"xC2", "xE1", "xE2", "xE3"}

\* The length in bytes of the white space rune that begins at s[i], or 0.
SpaceAt(s, i) ==
    IF IsSpace(s[i])
    THEN 1
    ELSE IF s[i] \notin SpaceLeads
    THEN 0
    ELSE IF \E r \in SpaceRunes : i + Len(r) - 1 <= Len(s) /\ SubSeq(s, i, i + Len(r) - 1) = r
    THEN Len(CHOOSE r \in SpaceRunes :
                 i + Len(r) - 1 <= Len(s) /\ SubSeq(s, i, i + Len(r) - 1) = r)
    ELSE 0

\* strings.Fields: the maximal runs of s without white space, in order.
\* cur is the field being read, out the fields already closed.
RECURSIVE FieldsFrom(_, _, _, _)
FieldsFrom(s, i, cur, out) ==
    IF i > Len(s)
    THEN IF cur = << >> THEN out ELSE Append(out, cur)
    ELSE IF IsSpace(s[i])
    THEN FieldsFrom(s, i + 1, << >>, IF cur = << >> THEN out ELSE Append(out, cur))
    ELSE IF s[i] \in SpaceLeads /\ SpaceAt(s, i) > 0
    THEN FieldsFrom(s, i + SpaceAt(s, i), << >>,
                    IF cur = << >> THEN out ELSE Append(out, cur))
    ELSE FieldsFrom(s, i + 1, Append(cur, s[i]), out)

Fields(s) == FieldsFrom(s, 1, << >>, << >>)

(***************************************************************************)
(* identifier and identifierSet                                            *)
(***************************************************************************)

\* identifier is uint16: a conversion to it keeps the low 16 bits.
identifierSpace == 65536

identifier(n) == n % identifierSpace

\* sort.Search(len(ids), func(i) { return ids[i] >= id }): the smallest
\* 0-based index whose element is >= id, or len(ids).
SearchGE(ids, id) ==
    IF \E i \in 1..Len(ids) : ids[i] >= id
    THEN (CHOOSE i \in 1..Len(ids) :
              ids[i] >= id /\ \A j \in 1..(i - 1) : ids[j] < id) - 1
    ELSE Len(ids)

\* An add that puts an absent id one place behind its sorted position.
add_insertsBehind(ids, id) ==
    IF Len(ids) = 0 \/ id > ids[Len(ids)]
    THEN Append(ids, id)
    ELSE LET i == SearchGE(ids, id)
         IN  IF i < Len(ids) /\ ids[i + 1] = id
             THEN ids
             ELSE SubSeq(ids, 1, i + 1) \o << id >> \o SubSeq(ids, i + 2, Len(ids))

\* An add that appends an absent id without looking for its place.
add_appends(ids, id) ==
    IF \E i \in 1..Len(ids) : ids[i] = id THEN ids ELSE Append(ids, id)

\* ids.add(id)
add(ids, id) ==
    IF Len(ids) = 0 \/ id > ids[Len(ids)]
    THEN Append(ids, id)
    ELSE LET i == SearchGE(ids, id)
         IN  IF i < Len(ids) /\ ids[i + 1] = id
             THEN ids
             ELSE SubSeq(ids, 1, i) \o << id >> \o SubSeq(ids, i + 1, Len(ids))

\* ids.remove(id)
remove(ids, id) ==
    LET i == SearchGE(ids, id)
    IN  IF i >= Len(ids) \/ ids[i + 1] # id
        THEN ids
        ELSE SubSeq(ids, 1, i) \o SubSeq(ids, i + 2, Len(ids))

\* The loop of ids.intersect(dst, other); i and j are the code's 0-based
\* cursors.
RECURSIVE intersectLoop(_, _, _, _, _)
intersectLoop(ids, other, i, j, dst) ==
    IF i < Len(ids) /\ j < Len(other)
    THEN IF ids[i + 1] = other[j + 1]
         THEN intersectLoop(ids, other, i + 1, j + 1, Append(dst, ids[i + 1]))
         ELSE IF ids[i + 1] > other[j + 1]
         THEN intersectLoop(ids, other, i, j + 1, dst)
         ELSE intersectLoop(ids, other, i + 1, j, dst)
    ELSE dst

\* An intersect whose loop steps the wrong cursor when the elements differ.
RECURSIVE intersectLoop_wrongCursor(_, _, _, _, _)
intersectLoop_wrongCursor(ids, other, i, j, dst) ==
    IF i < Len(ids) /\ j < Len(other)
    THEN IF ids[i + 1] = other[j + 1]
         THEN intersectLoop_wrongCursor(ids, other, i + 1, j + 1,
                                        Append(dst, ids[i + 1]))
         ELSE IF ids[i + 1] > other[j + 1]
         THEN intersectLoop_wrongCursor(ids, other, i + 1, j, dst)
         ELSE intersectLoop_wrongCursor(ids, other, i, j + 1, dst)
    ELSE dst

intersect_wrongCursor(ids, dst, other) ==
    IF Len(ids) = 0 \/ Len(other) = 0
    THEN dst
    ELSE intersectLoop_wrongCursor(ids, other, 0, 0, dst)

\* ids.intersect(dst, other), dst a slice of its own.
intersect(ids, dst, other) ==
    IF Len(ids) = 0 \/ Len(other) = 0
    THEN dst
    ELSE intersectLoop(ids, other, 0, 0, dst)

\* The loop of ids.intersect(ids[:0], other): dst is the first n elements of
\* the array that ids reads from, so each append writes into that array.
RECURSIVE intersectSharedLoop(_, _, _, _, _)
intersectSharedLoop(arr, other, i, j, n) ==
    IF i < Len(arr) /\ j < Len(other)
    THEN IF arr[i + 1] = other[j + 1]
         THEN intersectSharedLoop([arr EXCEPT ![n + 1] = arr[i + 1]],
                                  other, i + 1, j + 1, n + 1)
         ELSE IF arr[i + 1] > other[j + 1]
         THEN intersectSharedLoop(arr, other, i, j + 1, n)
         ELSE intersectSharedLoop(arr, other, i + 1, j, n)
    ELSE SubSeq(arr, 1, n)

\* ids.intersect(ids[:0], other)
intersectShared(ids, other) ==
    IF Len(ids) = 0 \/ Len(other) = 0
    THEN << >>
    ELSE intersectSharedLoop(ids, other, 0, 0, 0)

(***************************************************************************)
(* Terms                                                                   *)
(***************************************************************************)

\* termSize = md5.Size
termSize == 16

\* The process's random salt, as one opaque block.
termSalt == << "<salt>" >>

\* The md5 digest of x, kept symbolic: distinct inputs give distinct digests
\* (the digest is taken to be collision-free).
md5Sum(x) == << "md5(" >> \o x \o << ")" >>

\* makeTerm(s): the lower-cased string zero-padded to termSize bytes, or the
\* digest of salt + lower-cased string when it is longer than termSize.
makeTerm(s) ==
    LET l == ToLower(s)
    IN  IF Len(l) <= termSize
        THEN [hashed |-> FALSE,
              bytes  |-> l \o [i \in 1..(termSize - Len(l)) |-> NUL]]
        ELSE [hashed |-> TRUE, bytes |-> md5Sum(termSalt \o l)]

\* A Go map with no keys.
EmptyMap == [k \in {} |-> 0]

\* a | b on the two-bit masks of Put.
BitOr(a, b) ==
    (IF a % 2 = 1 \/ b % 2 = 1 THEN 1 ELSE 0)
    + 2 * (IF (a \div 2) % 2 = 1 \/ (b \div 2) % 2 = 1 THEN 1 ELSE 0)

\* terms[t] = terms[t] | mask, on a map[term]int (a missing key reads 0).
OrTerm(terms, t, mask) ==
    IF t \in DOMAIN terms
    THEN [terms EXCEPT ![t] = BitOr(@, mask)]
    ELSE terms @@ (t :> mask)

StrProject == << "p", "r", "o", "j", "e", "c", "t", ":" >>
StrImport  == << "i", "m", "p", "o", "r", "t", ":" >>
StrAll     == << "a", "l", "l", ":" >>

\* The loop over dpkg.Imports in addPackageTerms.
RECURSIVE addImportTerms(_, _, _, _)
addImportTerms(terms, mask, imports, i) ==
    IF i > Len(imports)
    THEN terms
    ELSE addImportTerms(OrTerm(terms, makeTerm(StrImport \o imports[i]), mask),
                        mask, imports, i + 1)

\* Whether addPackageTerms returns after the project term: the switch on
\* dpkg.IsCmd.
termsStopAfterProject(dpkg) ==
    IF dpkg.IsCmd
    THEN LET i == Index(dpkg.Doc, ".")
         IN  dpkg.Synopsis = << >> \/ i <= Len(dpkg.Doc) - 1
    ELSE /\ Len(dpkg.Consts) = 0
         /\ Len(dpkg.Vars) = 0
         /\ Len(dpkg.Funcs) = 0
         /\ Len(dpkg.Types) = 0

\* addPackageTerms(terms, mask, dpkg): the map after the call.
addPackageTerms(terms, mask, dpkg) ==
    IF dpkg.Name = << >>
    THEN terms
    ELSE LET t1 == OrTerm(terms, makeTerm(StrProject \o dpkg.ProjectRoot), mask)
         IN  IF termsStopAfterProject(dpkg)
             THEN t1
             ELSE LET t2 == addImportTerms(t1, mask, dpkg.Imports, 1)
                      t3 == OrTerm(t2, makeTerm(dpkg.Name), mask)
                  IN  OrTerm(t3, makeTerm(pathSplitFile(dpkg.ImportPath)), mask)

\* The set of terms addPackageTerms derives for dpkg: the keys of a fresh
\* map after the call.
packageTerms(dpkg) == DOMAIN addPackageTerms(EmptyMap, 1, dpkg)

(***************************************************************************)
(* The Index                                                               *)
(***************************************************************************)

\* A nil *ipackage: the slot of a removed package.
NilPackage == [isNil |-> TRUE]

\* doc.ErrPackageNotFound and the nil error.
ErrPackageNotFound == "package not found"
NoError == "nil"

\* The sortBy values of Query.
SortByNone == 0
SortByPath == 1
SortByScore == 2

SortModes == {SortByNone, SortByPath, SortByScore}

\* The masks of Put.
addMask == 1
removeMask == 2

\* index.New(): no slots, no ids, no terms.
New == [pkgs |-> << >>, ids |-> EmptyMap, terms |-> EmptyMap]

\* idx.terms[t]: the postings of t, nil (empty) for a missing key.
postings(x, t) == IF t \in DOMAIN x.terms THEN x.terms[t] ELSE << >>

\* The score Put computes for dpkg.
putScore(dpkg) ==
    IF dpkg.ProjectRoot = << >> THEN 3
    ELSE IF Len(dpkg.Errors) > 0 THEN 0
    ELSE IF Len(dpkg.Synopsis) = 0 THEN 1
    ELSE 2

\* The ipackage Put builds for dpkg.
newIpackage(dpkg) ==
    [isNil  |-> FALSE,
     result |-> [ImportPath |-> dpkg.ImportPath,
                 IsCmd      |-> dpkg.IsCmd,
                 Score      |-> putScore(dpkg),
                 Synopsis   |-> dpkg.Synopsis],
     dpkg   |-> dpkg]

\* The id Put uses for dpkg: the one recorded for its import path, or the
\* slot count converted to identifier.
putId(x, dpkg) ==
    IF dpkg.ImportPath \in DOMAIN x.ids
    THEN x.ids[dpkg.ImportPath]
    ELSE identifier(Len(x.pkgs))

\* A Put that leaves the terms of the model it replaces alone.
putOldMasks_keepsOldTerms(x, masks, dpkg) == masks

\* Lines 237-241 of Put on the masks: removeMask or-ed in for the terms of
\* the model the slot of dpkg's import path holds, if it holds one.
putOldMasks(x, masks, dpkg) ==
    IF dpkg.ImportPath \in DOMAIN x.ids /\ ~x.pkgs[x.ids[dpkg.ImportPath] + 1].isNil
    THEN addPackageTerms(masks, removeMask, x.pkgs[x.ids[dpkg.ImportPath] + 1].dpkg)
    ELSE masks

\* The term masks of Put: addMask for the terms of dpkg, or-ed with
\* removeMask for the terms of the model the slot holds.
putMasks(x, dpkg) ==
    putOldMasks(x, addPackageTerms(EmptyMap, addMask, dpkg), dpkg)

\* A Put that leaves a slot that holds a model alone.
putSlot_keepsModel(x, dpkg) ==
    IF dpkg.ImportPath \in DOMAIN x.ids
    THEN IF x.pkgs[x.ids[dpkg.ImportPath] + 1].isNil
         THEN [x EXCEPT !.pkgs[x.ids[dpkg.ImportPath] + 1] = newIpackage(dpkg)]
         ELSE x
    ELSE [x EXCEPT !.pkgs = Append(x.pkgs, newIpackage(dpkg)),
                   !.ids  = x.ids @@ (dpkg.ImportPath :> identifier(Len(x.pkgs)))]

\* The slot array and id map after Put stored the ipackage of dpkg.
putSlot(x, dpkg) ==
    IF dpkg.ImportPath \in DOMAIN x.ids
    THEN [x EXCEPT !.pkgs[x.ids[dpkg.ImportPath] + 1] = newIpackage(dpkg)]
    ELSE [x EXCEPT !.pkgs = Append(x.pkgs, newIpackage(dpkg)),
                   !.ids  = x.ids @@ (dpkg.ImportPath :> identifier(Len(x.pkgs)))]

\* A loop body that tests the remove bit alone, so that a term both added
\* and removed is removed.
putTerm_testsRemoveBit(terms, t, mask, id) ==
    LET old == IF t \in DOMAIN terms THEN terms[t] ELSE << >>
    IN  [u \in DOMAIN terms \cup {t} |->
            IF u = t
            THEN IF mask \in {removeMask, addMask + removeMask}
                 THEN remove(old, id) ELSE add(old, id)
            ELSE terms[u]]

\* One iteration of Put's loop over the masks: the postings table after the
\* switch on mask for term t.
putTerm(terms, t, mask, id) ==
    LET old == IF t \in DOMAIN terms THEN terms[t] ELSE << >>
        new == IF mask = addMask THEN add(old, id)
               ELSE IF mask = removeMask THEN remove(old, id)
               ELSE old
    IN  IF mask \in {addMask, removeMask}
        THEN [u \in DOMAIN terms \cup {t} |-> IF u = t THEN new ELSE terms[u]]
        ELSE terms

\* A loop that empties the postings of a term to remove, whatever IDs they
\* hold.
putTerms_emptiesPostings(terms, masks, id) ==
    [u \in DOMAIN terms \cup {t \in DOMAIN masks : masks[t] \in {addMask, removeMask}} |->
        IF u \in DOMAIN masks
        THEN IF masks[u] = removeMask THEN << >> ELSE putTerm(terms, u, masks[u], id)[u]
        ELSE terms[u]]

\* Put's whole loop over the masks.  Each iteration touches its own key, so
\* the order of the map iteration does not show in the result.
putTerms(terms, masks, id) ==
    [u \in DOMAIN terms \cup {t \in DOMAIN masks : masks[t] \in {addMask, removeMask}} |->
        IF u \in DOMAIN masks
        THEN putTerm(terms, u, masks[u], id)[u]
        ELSE terms[u]]

\* idx.Put(dpkg): the index after the call.
Index_Put(x, dpkg) ==
    LET masks == putMasks(x, dpkg)
        id    == putId(x, dpkg)
        x1    == putSlot(x, dpkg)
    IN  [x1 EXCEPT !.terms = putTerms(x.terms, masks, id)]

\* idx.Get(importPath): the package and the error returned.
Index_Get(x, importPath) ==
    IF importPath \in DOMAIN x.ids /\ ~x.pkgs[x.ids[importPath] + 1].isNil
    THEN [dpkg |-> x.pkgs[x.ids[importPath] + 1].dpkg, err |-> NoError]
    ELSE [dpkg |-> NilPackage, err |-> ErrPackageNotFound]

\* A loop body of Remove that leaves the postings as they are.
removeTerm_keepsPostings(terms, t, id) ==
    LET old == IF t \in DOMAIN terms THEN terms[t] ELSE << >>
    IN  [u \in DOMAIN terms \cup {t} |-> IF u = t THEN old ELSE terms[u]]

\* One iteration of Remove's loop: the postings table after removing id from
\* the postings of t.
removeTerm(terms, t, id) ==
    LET old == IF t \in DOMAIN terms THEN terms[t] ELSE << >>
    IN  [u \in DOMAIN terms \cup {t} |-> IF u = t THEN remove(old, id) ELSE terms[u]]

\* A Remove that gives the ID of the path up with the slot.
Index_Remove_forgetsId(x, importPath) ==
    IF importPath \in DOMAIN x.ids /\ ~x.pkgs[x.ids[importPath] + 1].isNil
    THEN [x EXCEPT !.pkgs[x.ids[importPath] + 1] = NilPackage,
                   !.ids = [u \in DOMAIN x.ids \ {importPath} |-> x.ids[u]]]
    ELSE x

\* A Remove that retracts the terms and leaves the slot.
Index_Remove_keepsSlot(x, importPath) ==
    IF importPath \in DOMAIN x.ids /\ ~x.pkgs[x.ids[importPath] + 1].isNil
    THEN LET id    == x.ids[importPath]
             terms == addPackageTerms(EmptyMap, 0, x.pkgs[id + 1].dpkg)
         IN  [x EXCEPT !.terms = [u \in DOMAIN x.terms \cup DOMAIN terms |->
                                     IF u \in DOMAIN terms
                                     THEN remove(x.terms[u], id)
                                     ELSE x.terms[u]]]
    ELSE x

\* idx.Remove(importPath): the index after the call.
Index_Remove(x, importPath) ==
    IF importPath \in DOMAIN x.ids /\ ~x.pkgs[x.ids[importPath] + 1].isNil
    THEN LET id    == x.ids[importPath]
             terms == addPackageTerms(EmptyMap, 0, x.pkgs[id + 1].dpkg)
         IN  [x EXCEPT !.terms = [u \in DOMAIN x.terms \cup DOMAIN terms |->
                                     IF u \in DOMAIN terms
                                     THEN removeTerm(x.terms, u, id)[u]
                                     ELSE x.terms[u]],
                       !.pkgs[id + 1] = NilPackage]
    ELSE x

\* idx.results(ids): the results of the non-nil slots of ids, in order.
RECURSIVE resultsFrom(_, _, _)
resultsFrom(x, ids, i) ==
    IF i > Len(ids)
    THEN << >>
    ELSE LET pkg == x.pkgs[ids[i] + 1]
         IN  (IF pkg.isNil THEN << >> ELSE << pkg.result >>)
             \o resultsFrom(x, ids, i + 1)

Index_results(x, ids) == resultsFrom(x, ids, 1)

\* A scan that returns the placeholders too.
RECURSIVE allFrom_keepsPlaceholders(_, _)
allFrom_keepsPlaceholders(x, i) ==
    IF i > Len(x.pkgs)
    THEN << >>
    ELSE (IF ~x.pkgs[i].isNil THEN << x.pkgs[i].result >> ELSE << >>)
         \o allFrom_keepsPlaceholders(x, i + 1)

\* The scan of Query("all:"): the results of the slots that hold a package
\* with a name, in slot order.
RECURSIVE allFrom(_, _)
allFrom(x, i) ==
    IF i > Len(x.pkgs)
    THEN << >>
    ELSE LET pkg == x.pkgs[i]
         IN  (IF ~pkg.isNil /\ pkg.dpkg.Name # << >> THEN << pkg.result >> ELSE << >>)
             \o allFrom(x, i + 1)

\* The loop "for i := 2; i < len(fields); i++" of Query: each round
\* intersects ids, in place, with the postings of fields[1].
RECURSIVE queryRounds(_, _, _, _)
queryRounds(x, fields, i, ids) ==
    IF i < Len(fields)
    THEN queryRounds(x, fields, i + 1,
                     intersectShared(ids, postings(x, makeTerm(fields[2]))))
    ELSE ids

\* The identifiers Query selects for a query other than "all:".
queryIds(x, q) ==
    LET fields == Fields(q)
    IN  IF Len(fields) = 0 THEN << >>
        ELSE IF Len(fields) = 1 THEN postings(x, makeTerm(fields[1]))
        ELSE queryRounds(x, fields, 2,
                 intersect(postings(x, makeTerm(fields[1])), << >>,
                           postings(x, makeTerm(fields[2]))))

\* The results of Query before the sort.
queryUnsorted(x, q) ==
    IF q = StrAll THEN allFrom(x, 1) ELSE Index_results(x, queryIds(x, q))

\* The orders sort.Sort may leave rs in under sortBy.  sort.Sort is not
\* stable: entries that compare equal may end in any order.
sortOutcomes(rs, sortBy) ==
    LET perms == {[i \in 1..Len(rs) |-> rs[p[i]]] : p \in Permutations(1..Len(rs))}
    IN  IF sortBy = SortByPath
        THEN {s \in perms : \A i \in 1..(Len(s) - 1) :
                  ~StringLess(s[i + 1].ImportPath, s[i].ImportPath)}
        ELSE IF sortBy = SortByScore
        THEN {s \in perms : \A i \in 1..(Len(s) - 1) : ~(s[i + 1].Score > s[i].Score)}
        ELSE {rs}

\* idx.Query(q, sortBy): the result sequences the call may return.
Index_Query(x, q, sortBy) == sortOutcomes(queryUnsorted(x, q), sortBy)

\* The filter of Subdirs over the postings of the project found.
RECURSIVE subdirsFilter(_, _, _, _)
subdirsFilter(x, ids, prefix, i) ==
    IF i > Len(ids)
    THEN << >>
    ELSE LET pkg == x.pkgs[ids[i] + 1]
         IN  (IF /\ ~pkg.isNil
                 /\ HasPrefix(pkg.result.ImportPath, prefix)
                 /\ pkg.dpkg.Name # << >>
              THEN << pkg.result >> ELSE << >>)
             \o subdirsFilter(x, ids, prefix, i + 1)

\* Lines 363-367 of Subdirs: the path the loop goes on with after
\* importPath, importPath[:i] for i the last slash, or 0 without one.
subdirsParent(importPath) ==
    LET i == LastIndex(importPath, "/")
    IN  SubSeq(importPath, 1, IF i < 0 THEN 0 ELSE i)

\* The loop of Subdirs looking for the project root: whether a path with a
\* "project:" key was found, and the postings of that key.
RECURSIVE subdirsFind(_, _)
subdirsFind(x, importPath) ==
    IF importPath = << >>
    THEN [ok |-> FALSE, ids |-> << >>]
    ELSE IF makeTerm(StrProject \o importPath) \in DOMAIN x.terms
    THEN [ok |-> TRUE, ids |-> x.terms[makeTerm(StrProject \o importPath)]]
    ELSE subdirsFind(x, subdirsParent(importPath))

\* A Subdirs that, finding no project, returns every stored named entry
\* below importPath.
Index_Subdirs_scansAll(x, importPath) ==
    LET found == subdirsFind(x, importPath)
    IN  IF found.ok
        THEN subdirsFilter(x, found.ids, importPath \o << "/" >>, 1)
        ELSE subdirsFilter(x, [i \in 1..Len(x.pkgs) |-> i - 1], importPath \o << "/" >>, 1)

\* idx.Subdirs(importPath): the results returned (the error is always nil).
Index_Subdirs(x, importPath) ==
    LET found == subdirsFind(x, importPath)
    IN  IF found.ok
        THEN subdirsFilter(x, found.ids, importPath \o << "/" >>, 1)
        ELSE << >>

\* idx.Subdirs(importPath): the error returned (line 369).
Index_SubdirsErr(x, importPath) == NoError

(***************************************************************************)
(* The packages and requests the calls are made with                       *)
(***************************************************************************)

PathRA  == << "r", "/", "a" >>
PathRAB == << "r", "/", "a", "/", "b" >>
PathN   == << "n" >>

\* A doc.Package with every field zero.
ZeroPackage ==
    [ImportPath |-> << >>, ProjectRoot |-> << >>, Name |-> << >>,
     Synopsis |-> << >>, Doc |-> << >>, IsCmd |-> FALSE, Hide |-> FALSE,
     Imports |-> << >>, Consts |-> << >>, Vars |-> << >>, Funcs |-> << >>,
     Types |-> << >>, Errors |-> << >>]

\* A library r/a of project r with one func, importing x.
PkgLibA ==
    [ZeroPackage EXCEPT !.ImportPath = PathRA, !.ProjectRoot = << "r" >>,
        !.Name = << "a" >>, !.Synopsis = << "S" >>, !.Doc = << "S", "." >>,
        !.Imports = << << "x" >> >>, !.Funcs = << "F" >>]

\* r/a with a name and an import and no exported declaration, as the
\* packages of index_test.go are.
PkgBareA ==
    [ZeroPackage EXCEPT !.ImportPath = PathRA, !.ProjectRoot = << "r" >>,
        !.Name = << "a" >>, !.Hide = TRUE, !.Imports = << << "x" >> >>]

\* r/a as an empty directory.
PkgDirA ==
    [ZeroPackage EXCEPT !.ImportPath = PathRA, !.ProjectRoot = << "r" >>]

\* A library r/a/b of project r with one const, importing x.
PkgLibB ==
    [ZeroPackage EXCEPT !.ImportPath = PathRAB, !.ProjectRoot = << "r" >>,
        !.Name = << "b" >>, !.Synopsis = << "S" >>, !.Doc = << "S", "." >>,
        !.Imports = << << "x" >> >>, !.Consts = << "C" >>]

\* r/a/b as a library of a project rooted at r/a, with one var, built with
\* an error.
PkgSubB ==
    [ZeroPackage EXCEPT !.ImportPath = PathRAB, !.ProjectRoot = << "r", "/", "a" >>,
        !.Name = << "b" >>, !.Vars = << "V" >>, !.Errors = << "e" >>]

\* r/a/b as a documented command: a synopsis and two sentences of doc.
PkgCmdB ==
    [ZeroPackage EXCEPT !.ImportPath = PathRAB, !.ProjectRoot = << "r" >>,
        !.Name = << "b" >>, !.IsCmd = TRUE, !.Synopsis = << "S", "." >>,
        !.Doc = << "S", ".", " ", "T", "." >>, !.Imports = << << "x" >> >>]

\* r/a/b as an application main (hidden) that also exports a func.
PkgMainB ==
    [ZeroPackage EXCEPT !.ImportPath = PathRAB, !.ProjectRoot = << "r" >>,
        !.Name = << "m", "a", "i", "n" >>, !.Hide = TRUE,
        !.Imports = << << "x" >> >>, !.Funcs = << "F" >>]

\* r/a as a standard package (empty project root): package A (upper case)
\* with one const, importing encoding/json.
PkgStdA ==
    [ZeroPackage EXCEPT !.ImportPath = PathRA, !.Name = << "A" >>,
        !.Synopsis = << "S" >>, !.Doc = << "S", "." >>,
        !.Imports = << << "e", "n", "c", "o", "d", "i", "n", "g", "/", "j", "s", "o", "n" >> >>,
        !.Consts = << "C" >>]

\* r/a as the root package of a project rooted at r/a, with a name and no
\* exported declaration.
PkgRootA ==
    [ZeroPackage EXCEPT !.ImportPath = PathRA, !.ProjectRoot = PathRA,
        !.Name = << "a" >>, !.Hide = TRUE]

\* The models Put is called with.
Packages ==
    {PkgLibA, PkgBareA, PkgDirA, PkgStdA, PkgRootA, PkgLibB, PkgSubB, PkgCmdB,
     PkgMainB}

\* The import paths Remove is called with.
RemovePaths == {PathRA, PathRAB}

\* The import paths Get is called with; PathN is never Put.
ImportPaths == RemovePaths \cup {PathN}

\* The import paths Subdirs is called with: the paths above, their ancestors
\* and a path below r that is never Put.
SubdirPaths ==
    ImportPaths \cup {<< "r" >>, << "r", "/", "n" >>, << >>}

\* More paths for the walk of Subdirs: leading, trailing, doubled and lone
\* slashes.
WalkPaths ==
    SubdirPaths \cup {<< "/" >>, << "n", "/" >>, << "/", "n" >>,
                      << "r", "/", "/", "a" >>, << "r", "/", "a", "/" >>}

\* The longest query, in fields.
MaxQueryTerms == 3

\* The words queries are made of: two names and an import term.
QueryWords == {<< "a" >>, << "b" >>, StrImport \o << "x" >>}

\* The fields joined by single spaces.
RECURSIVE JoinFields(_)
JoinFields(fs) ==
    IF Len(fs) = 0 THEN << >>
    ELSE IF Len(fs) = 1 THEN fs[1]
    ELSE fs[1] \o << " " >> \o JoinFields(Tail(fs))

\* The queries Query is called with: every sequence of at most MaxQueryTerms
\* words, and "all:".
Queries ==
    {JoinFields(fs) : fs \in UNION {[1..k -> QueryWords] : k \in 0..MaxQueryTerms}}
    \cup {StrAll}

\* Every string a package of Packages could be indexed under, whether or not
\* addPackageTerms indexes it, and a word no package has.
TermStrings ==
    UNION {{StrProject \o p.ProjectRoot, p.Name, pathSplitFile(p.ImportPath)}
           \cup {StrImport \o p.Imports[i] : i \in 1..Len(p.Imports)} : p \in Packages}
    \cup {<< "z" >>}

(***************************************************************************)
(* Package doc: synopsis and buildDoc (src/doc/builder.go)                 *)
(***************************************************************************)

\* No call of package doc made, and no result yet.
NoRequest == [fn |-> "none"]
NoResult == [fn |-> "none"]

\* strings.HasSuffix
HasSuffix(s, suffix) ==
    Len(suffix) <= Len(s) /\ SubSeq(s, Len(s) - Len(suffix) + 1, Len(s)) = suffix

\* s without its trailing slashes.
RECURSIVE trimSlashes(_)
trimSlashes(s) ==
    IF s # << >> /\ s[Len(s)] = "/"
    THEN trimSlashes(SubSeq(s, 1, Len(s) - 1))
    ELSE s

\* path.Base: the last element of s, trailing slashes removed; "." for the
\* empty path and "/" for a path of slashes.
pathBase(s) ==
    IF s = << >>
    THEN << "." >>
    ELSE IF trimSlashes(s) = << >>
    THEN << "/" >>
    ELSE pathSplitFile(trimSlashes(s))

\* ast.IsExported: the first rune of the name is an upper-case letter.
IsExported(name) ==
    IF name = << >>
    THEN FALSE
    ELSE IF name[1] \notin HighBytes
    THEN \E i \in DOMAIN UpperLetters : UpperLetters[i] = name[1]
    ELSE isUpperRune(decodeRune(name, 1).rune)

StrMain == << "m", "a", "i", "n" >>
StrDocumentation ==
    << "d", "o", "c", "u", "m", "e", "n", "t", "a", "t", "i", "o", "n" >>
StrTestGo == << "_", "t", "e", "s", "t", ".", "g", "o" >>
StrDocGo == << "d", "o", "c", ".", "g", "o" >>

\* The permutations of a finite set: the orders in which a range over a Go
\* map can visit its keys.
Perms(S) ==
    {f \in [1..Cardinality(S) -> S] : \A e \in S : \E i \in 1..Cardinality(S) : f[i] = e}

\* The files of a call, a slice in the code, as a set.
FileSet(files) == {files[i] : i \in DOMAIN files}

\* A grouping that takes the test files too.
buildPkgs_withTests(files) ==
    [name \in {f.Name : f \in {g \in FileSet(files) : g.parses}} |->
        {f \in FileSet(files) : f.parses /\ f.Name = name}]

\* Lines 433-448 of buildDoc: the files that are no test files and parse,
\* grouped by package name (ast.Package.Files of each name).  Files is a map
\* by file name: of two files of one package with one name the later stays.
buildPkgs(files) ==
    LET parsed == {i \in DOMAIN files :
                      ~HasSuffix(files[i].Filename, StrTestGo) /\ files[i].parses}
        kept   == {i \in parsed :
                      ~\E j \in parsed : /\ j > i
                                         /\ files[j].Name = files[i].Name
                                         /\ files[j].Filename = files[i].Filename}
    IN  [name \in {files[i].Name : i \in parsed} |->
            {files[i] : i \in {k \in kept : files[k].Name = name}}]

\* b.pkg and score before the loop of lines 449-462.
NoCandidate == [isNil |-> TRUE, pkg |-> << >>, score |-> 0]

\* A switch that lets every better-or-equal kind of package replace the
\* choice, whatever the score reached.
selectCase_lastWins(importPath, st, name) ==
    IF HasSuffix(importPath, name)
    THEN [isNil |-> FALSE, pkg |-> name, score |-> 3]
    ELSE IF name # StrMain
    THEN [isNil |-> FALSE, pkg |-> name, score |-> 2]
    ELSE [isNil |-> FALSE, pkg |-> name, score |-> 1]

\* A switch without the case of the import path's suffix.
selectCase_noSuffix(importPath, st, name) ==
    IF st.score < 2 /\ name # StrMain
    THEN [isNil |-> FALSE, pkg |-> name, score |-> 2]
    ELSE IF st.score < 1
    THEN [isNil |-> FALSE, pkg |-> name, score |-> 1]
    ELSE st

\* The switch of lines 451-461 on one package of the map.
selectCase(importPath, st, name) ==
    IF st.score < 3 /\ HasSuffix(importPath, name)
    THEN [isNil |-> FALSE, pkg |-> name, score |-> 3]
    ELSE IF st.score < 2 /\ name # StrMain
    THEN [isNil |-> FALSE, pkg |-> name, score |-> 2]
    ELSE IF st.score < 1
    THEN [isNil |-> FALSE, pkg |-> name, score |-> 1]
    ELSE st

\* The loop of lines 450-462 over the packages in the order the map yields
\* them.
RECURSIVE selectLoop(_, _, _, _)
selectLoop(importPath, st, order, i) ==
    IF i > Len(order)
    THEN st
    ELSE selectLoop(importPath, selectCase(importPath, st, order[i]), order, i + 1)

\* Lines 478-484: the first FuncDecl named main among the declarations of
\* one file, and what it sets hasApplicationMain to.
RECURSIVE mainCheckDecls(_, _)
mainCheckDecls(decls, j) ==
    IF j > Len(decls)
    THEN [found |-> FALSE, value |-> FALSE]
    ELSE IF decls[j].node = "FuncDecl" /\ decls[j].name = StrMain
    THEN [found |-> TRUE, value |-> decls[j].params = 0 /\ decls[j].results = 0]
    ELSE mainCheckDecls(decls, j + 1)

\* Lines 477-485: the files of package main in the order the map yields
\* them, up to the break.
RECURSIVE mainCheckFiles(_, _)
mainCheckFiles(order, i) ==
    IF i > Len(order)
    THEN FALSE
    ELSE IF mainCheckDecls(order[i].Decls, 1).found
    THEN mainCheckDecls(order[i].Decls, 1).value
    ELSE mainCheckFiles(order, i + 1)

\* Lines 474-486 of buildDoc.
hasApplicationMain(pkgs, mainOrder) ==
    IF StrMain \in DOMAIN pkgs THEN mainCheckFiles(mainOrder, 1) ELSE FALSE

\* ast.PackageExports and doc.New (lines 488-489) on the files of the
\* chosen package.  doc.New lists a declaration under a type (Type.Consts,
\* Type.Vars, Type.Funcs, Type.Methods) when it is a const or var declared
\* with that type, a func whose first result has that type, or a method of
\* it, and the type's name is exported; what it lists under a type that the
\* package does not declare is in the documentation nowhere.
declsOf(pkgFiles) ==
    UNION {{f.Decls[j] : j \in 1..Len(f.Decls)} : f \in pkgFiles}

\* The exported types the package declares (pdoc.Types, by name).
exportedTypes(pkgFiles) ==
    {d.name : d \in {e \in declsOf(pkgFiles) :
                        e.node = "GenDecl" /\ e.tok = "type" /\ IsExported(e.name)}}

\* A receiver type without its star.
recvBase(recv) ==
    IF recv # << >> /\ recv[1] = "*" THEN SubSeq(recv, 2, Len(recv)) ELSE recv

\* The type doc.New lists a declaration under, or the empty name: typ for
\* a const, a var or a func, the receiver's type for a method.
ownerType(d) ==
    IF d.node = "FuncDecl" /\ d.recv # << >>
    THEN recvBase(d.recv)
    ELSE IF d.node = "GenDecl" /\ d.tok = "type"
    THEN << >>
    ELSE IF IsExported(d.typ) THEN d.typ ELSE << >>

\* The exported declarations of one kind that doc.New lists under owner;
\* the empty owner is the package.  Methods are the kind "method".
exportedUnder(pkgFiles, kind, owner) ==
    {d.name : d \in {e \in declsOf(pkgFiles) :
                        /\ IsExported(e.name)
                        /\ ownerType(e) = owner
                        /\ CASE kind = "method" ->
                                    e.node = "FuncDecl" /\ e.recv # << >>
                             [] kind = "func" ->
                                    e.node = "FuncDecl" /\ e.recv = << >>
                             [] OTHER ->
                                    e.node = "GenDecl" /\ e.tok = kind}}

\* pdoc.Consts and pdoc.Vars (tok "const", "var"): the exported values
\* listed under no type.
exportedValues(pkgFiles, tok) == exportedUnder(pkgFiles, tok, << >>)

\* pdoc.Funcs: the exported funcs listed under no type.
exportedFuncs(pkgFiles) == exportedUnder(pkgFiles, "func", << >>)

\* pdoc.Types: each exported type with what is listed under it.
exportedTypeDocs(pkgFiles) ==
    {[Name    |-> n,
      Consts  |-> exportedUnder(pkgFiles, "const", n),
      Vars    |-> exportedUnder(pkgFiles, "var", n),
      Funcs   |-> exportedUnder(pkgFiles, "func", n),
      Methods |-> exportedUnder(pkgFiles, "method", n)] : n \in exportedTypes(pkgFiles)}

\* The names b.funcs and b.types call b.getExamples with (lines 303-319 and
\* 338-349): the name of each func, of the package or under a type, the
\* name of each type, and for each method the receiver's type without its
\* star, an underscore and the method's name.
exampleNames(pkgFiles) ==
    exportedFuncs(pkgFiles)
    \cup UNION {{ty.Name} \cup ty.Funcs \cup {ty.Name \o << "_" >> \o m : m \in ty.Methods} :
                  ty \in exportedTypeDocs(pkgFiles)}

StrTest == << "_", "t", "e", "s", "t" >>

\* startsWithUppercase (lines 34-37): unicode.IsUpper of the first rune.
startsWithUppercase(s) ==
    IF s = << >>
    THEN FALSE
    ELSE IF s[1] \notin HighBytes
    THEN \E i \in DOMAIN UpperLetters : UpperLetters[i] = s[1]
    ELSE isUpperRune(decodeRune(s, 1).rune)

\* Lines 504-508: the name of an example without a suffix that begins
\* behind its last underscore with no upper-case letter.
exampleName(name) ==
    LET i == LastIndex(name, "_")
    IN  IF i >= 0 /\ i < Len(name) - 1
           /\ ~startsWithUppercase(SubSeq(name, i + 2, Len(name)))
        THEN SubSeq(name, 1, i)
        ELSE name

\* Lines 491-511 from file i on: b.examples, the examples of the test files
\* that parse and whose package is pname or pname_test, renamed.
RECURSIVE collectExamples(_, _, _)
collectExamples(order, pname, i) ==
    IF i > Len(order)
    THEN << >>
    ELSE IF \/ ~HasSuffix(order[i].Filename, StrTestGo)
            \/ ~order[i].parses
            \/ (order[i].Name # pname /\ order[i].Name # pname \o StrTest)
    THEN collectExamples(order, pname, i + 1)
    ELSE [k \in 1..Len(order[i].Examples) |->
             [order[i].Examples[k] EXCEPT !.Name = exampleName(@)]]
         \o collectExamples(order, pname, i + 1)

\* A command test that does not ask for an application main.
buildIsCmd_withoutMain(name, filenames, noExports, main) ==
    /\ name = StrDocumentation
    /\ Cardinality(filenames) = 1
    /\ \A fn \in filenames : pathBase(fn) = StrDocGo
    /\ noExports

\* The condition of lines 519-523 of buildDoc: name is pdoc.Name and
\* filenames pdoc.Filenames.
buildIsCmd(name, filenames, noExports, main) ==
    /\ name = StrDocumentation
    /\ Cardinality(filenames) = 1
    /\ \A fn \in filenames : pathBase(fn) = StrDocGo
    /\ noExports
    /\ main

\* A hide that knows empty packages only.
buildHide_emptyOnly(name, main, noExports, isCmd) == noExports /\ ~isCmd

\* Line 528 of buildDoc: name is pdoc.Name after the rename of line 525.
buildHide(name, main, noExports, isCmd) ==
    (name = StrMain /\ main) \/ (noExports /\ ~isCmd)

\* The zero value of the Package of builder.go, without the fields buildDoc
\* copies from go/doc or the clock (Doc, Synopsis, Updated).
ZeroBuilt ==
    [ImportPath |-> << >>, Children |-> {}, Name |-> << >>, Hide |-> FALSE,
     IsCmd |-> FALSE, Consts |-> {}, Funcs |-> {}, Types |-> {}, Vars |-> {},
     Files |-> {}]

\* go/printer on the body of an example, a block statement, with
\* printer.UseSpaces and Tabwidth 4 (printNode, line 242): the braces on
\* lines of their own, also around no statement, and each statement on a new
\* line behind four spaces.  stmts are the statements as printed at that
\* depth.
RECURSIVE printStmts(_, _)
printStmts(stmts, i) ==
    IF i > Len(stmts)
    THEN << >>
    ELSE << "\n", " ", " ", " ", " " >> \o stmts[i] \o printStmts(stmts, i + 1)

printNode(stmts) == << "{" >> \o printStmts(stmts, 1) \o << "\n", "}" >>

\* strings.Replace(s, old, new, -1) from position i on: the occurrences of
\* old that do not overlap, left to right.
RECURSIVE stringsReplace(_, _, _, _)
stringsReplace(s, old, new, i) ==
    IF i > Len(s)
    THEN << >>
    ELSE IF i + Len(old) - 1 <= Len(s) /\ SubSeq(s, i, i + Len(old) - 1) = old
    THEN new \o stringsReplace(s, old, new, i + Len(old))
    ELSE << s[i] >> \o stringsReplace(s, old, new, i + 1)

\* strings.TrimRight(s, "\r\n\t ")
RECURSIVE trimRight(_)
trimRight(s) ==
    IF s # << >> /\ s[Len(s)] \in {"\r", "\n", "\t", " "}
    THEN trimRight(SubSeq(s, 1, Len(s) - 1))
    ELSE s

\* Lines 282-285 of getExamples on one example: the slice expression of
\* line 284 panics when its low index is above its high index.
exampleCode(stmts) ==
    LET code == stringsReplace(printNode(stmts), << "\n", " ", " ", " ", " " >>,
                               << "\n" >>, 1)
    IN  IF 2 > Len(code) - 2
        THEN [panics |-> TRUE, code |-> << >>]
        ELSE [panics |-> FALSE,
              code |-> trimRight(SubSeq(code, 3, Len(code) - 2))]

\* The loop of getExamples from example i on.
RECURSIVE getExamplesFrom(_, _, _)
getExamplesFrom(examples, name, i) ==
    IF i > Len(examples)
    THEN [panics |-> FALSE, docs |-> << >>]
    ELSE IF examples[i].Name # name
    THEN getExamplesFrom(examples, name, i + 1)
    ELSE LET c == exampleCode(examples[i].Body)
             rest == getExamplesFrom(examples, name, i + 1)
         IN  IF c.panics \/ rest.panics
             THEN [panics |-> TRUE, docs |-> << >>]
             ELSE [panics |-> FALSE,
                   docs |-> << [Code |-> c.code, Output |-> examples[i].Output] >>
                            \o rest.docs]

\* b.getExamples(name), b.examples given: whether the call panics, and the
\* examples returned if not.
getExamples(examples, name) == getExamplesFrom(examples, name, 1)

\* What a run of buildDoc leaves in place of a result when it panics: the
\* call does not return.
Aborted == "panic: slice bounds out of range"

\* One run of buildDoc(importPath, lineFmt, files, children), with pkgOrder
\* the order in which the range of line 450 visits the packages and
\* mainOrder the order in which the range of line 477 visits the files of
\* package main: the locals of the run and what it returns (ret).  The
\* examples are rendered while the Package of lines 530-544 is built, by
\* b.funcs and b.types.
buildDocRun(importPath, files, children, pkgOrder, mainOrder) ==
    LET pkgs     == buildPkgs(files)
        sel      == selectLoop(importPath, NoCandidate, pkgOrder, 1)
        early    == [sel |-> sel, hasApplicationMain |-> FALSE, noExports |-> FALSE,
                     isCmd |-> FALSE, name |-> << >>, hide |-> FALSE,
                     examples |-> << >>]
    IN  IF sel.isNil
        THEN IF children # {}
             THEN early @@
                  [ret |-> [pkg |-> [ZeroBuilt EXCEPT !.Children = children,
                                                      !.ImportPath = importPath],
                            err |-> NoError]]
             ELSE early @@ [ret |-> [pkg |-> NilPackage, err |-> ErrPackageNotFound]]
        ELSE LET main      == hasApplicationMain(pkgs, mainOrder)
                 pkgFiles  == pkgs[sel.pkg]
                 Consts    == exportedValues(pkgFiles, "const")
                 Vars      == exportedValues(pkgFiles, "var")
                 Types     == exportedTypeDocs(pkgFiles)
                 Funcs     == exportedFuncs(pkgFiles)
                 Filenames == {f.Filename : f \in pkgFiles}
                 noExports == Consts = {} /\ Funcs = {} /\ Types = {} /\ Vars = {}
                 isCmd     == buildIsCmd(sel.pkg, Filenames, noExports, main)
                 Name      == IF isCmd THEN pathBase(importPath) ELSE sel.pkg
                 hide      == buildHide(Name, main, noExports, isCmd)
                 examples  == collectExamples(files, sel.pkg, 1)
                 panics    == \E n \in exampleNames(pkgFiles) :
                                  getExamples(examples, n).panics
             IN  [sel |-> sel, hasApplicationMain |-> main, noExports |-> noExports,
                  isCmd |-> isCmd, name |-> Name, hide |-> hide,
                  examples |-> examples,
                  ret |-> IF panics
                          THEN [pkg |-> NilPackage, err |-> Aborted]
                          ELSE [pkg |-> [ImportPath |-> importPath,
                                         Children |-> children,
                                         Name |-> Name, Hide |-> hide, IsCmd |-> isCmd,
                                         Consts |-> Consts, Funcs |-> Funcs,
                                         Types |-> Types, Vars |-> Vars,
                                         Files |-> {pathSplitFile(fn) : fn \in Filenames}],
                                err |-> NoError]]

\* buildDoc: the package and the error returned.
buildDoc(importPath, files, children, pkgOrder, mainOrder) ==
    buildDocRun(importPath, files, children, pkgOrder, mainOrder).ret

\* The cut of synopsis, in bytes (line 75).
synopsisMax == 400

\* strings.SplitN(s, "\n\n", 2)[0]: s up to its first blank line.
firstParagraph(s) ==
    IF \E i \in 1..(Len(s) - 1) : s[i] = "\n" /\ s[i + 1] = "\n"
    THEN SubSeq(s, 1, (CHOOSE i \in 1..(Len(s) - 1) :
                          /\ s[i] = "\n" /\ s[i + 1] = "\n"
                          /\ \A j \in 1..(i - 1) : ~(s[j] = "\n" /\ s[j + 1] = "\n")) - 1)
    ELSE s

\* The body of the loop of lines 54-72 of synopsis on byte b: st holds
\* last (one of "space", "period", "other"), buf, and whether the loop has
\* been left by break Loop.
synopsisByte(b, st) ==
    IF st.done
    THEN st
    ELSE IF b \in {" ", "\t", "\r", "\n"}
    THEN IF st.last = "period"
         THEN [st EXCEPT !.done = TRUE]
         ELSE IF st.last = "other"
         THEN [st EXCEPT !.last = "space", !.buf = Append(st.buf, " ")]
         ELSE st
    ELSE IF b = "."
    THEN [st EXCEPT !.last = "period", !.buf = Append(st.buf, b)]
    ELSE [st EXCEPT !.last = "other", !.buf = Append(st.buf, b)]

\* The loop over the bytes lo..hi (1-based) of s, in order; the range is
\* split in two to keep the evaluation shallow.
RECURSIVE synopsisLoop(_, _, _, _)
synopsisLoop(s, lo, hi, st) ==
    IF lo > hi
    THEN st
    ELSE IF lo = hi
    THEN synopsisByte(s[lo], st)
    ELSE LET left == synopsisLoop(s, lo, (lo + hi) \div 2, st)
         IN  IF left.done
             THEN left
             ELSE synopsisLoop(s, (lo + hi) \div 2 + 1, hi, left)

\* buf of synopsis(s) before the cut of lines 75-77.
synopsisBuf(s) ==
    synopsisLoop(firstParagraph(s), 1, Len(firstParagraph(s)),
                 [last |-> "space", buf |-> << >>, done |-> FALSE]).buf

\* synopsis(s)
synopsis(s) ==
    IF Len(synopsisBuf(s)) > synopsisMax
    THEN SubSeq(synopsisBuf(s), 1, synopsisMax)
    ELSE synopsisBuf(s)

(***************************************************************************)
(* The documentation strings and source files given to package doc         *)
(***************************************************************************)

\* The bytes of two characters that UTF-8 encodes in more than one byte:
\* U+00E9 (C3 A9) and U+20AC (E2 82 AC).
RuneE9 == << "xC3", "xA9" >>
Rune20AC == << "xE2", "x82", "xAC" >>

\* A UTF-8 continuation byte (10xxxxxx).
IsContinuation(b) == b \in {"xA9", "x82", "xAC"}

\* n copies of the byte sequence c.
Repeat(c, n) == [i \in 1..(n * Len(c)) |-> c[((i - 1) % Len(c)) + 1]]

\* The longest run of ASCII letters before the repeated character.
MaxPad == 2

\* The numbers of repetitions: none, one, and around the cut for characters
\* of one, two and three bytes.
RuneCounts == {0, 1, 133, 134, 199, 200, 201, 400, 401}

\* Documentation that exercises the loop of synopsis: spaces, tabs and
\* newlines in runs, periods inside and at the end of a sentence, a blank
\* line.
ShortDocs ==
    {<< >>,
     << "a", " ", " ", "b", ".", " ", "c" >>,
     << " ", "a", ".", "b", "\t", "\n", "c", ".", "\n", "d" >>,
     << "a", "\n", "b", "\n", "\n", "c", "." >>,
     << "a", ".", "\r", "b" >>,
     << "a", " ", "xC3", "xA9", ".", " " >>}

\* The documentation strings: letters, then one character repeated.
LongDocs ==
    {Repeat(<< "a" >>, k) \o Repeat(c, n) :
        k \in 0..MaxPad, c \in {<< "b" >>, RuneE9, Rune20AC}, n \in RuneCounts}

Docs == ShortDocs \cup LongDocs

\* The declarations of a parsed file: ast.FuncDecl (recv: the type of its
\* receiver as written, empty for a func; params, results: the lengths of
\* the lists of its type) and the specs of an ast.GenDecl.  typ is the name
\* doc.New reads the declaration's type from, a star aside: the declared
\* type of a const or var, the type of the first result of a func; it is
\* empty when there is none or it is no plain name of the package.
FuncDecl(name, recv, params, results) ==
    [node |-> "FuncDecl", tok |-> "func", name |-> name, recv |-> recv,
     params |-> params, results |-> results, typ |-> << >>]

GenDecl(tok, name) ==
    [node |-> "GenDecl", tok |-> tok, name |-> name, recv |-> << >>,
     params |-> 0, results |-> 0, typ |-> << >>]

\* A source: its file name, whether parser.ParseFile accepts its content,
\* and the package name and declarations of the parsed file.  Examples is
\* what doc.Examples finds in it: for each func ExampleX without parameters
\* the name X, the statements of the body and the expected output.
Source(filename, parses, name, decls) ==
    [Filename |-> filename, parses |-> parses, Name |-> name, Decls |-> decls,
     Examples |-> << >>]

StrFoo == << "f", "o", "o" >>

\* The examples doc.Examples finds in the test files: func ExampleFoo with
\* one call, with an if statement around a call, and with an empty body,
\* func ExampleBar with two calls, func ExampleFoo_bar with a call and func
\* ExampleT_Do with an empty body.
StrCall == << "f", "(", ")" >>

StrIf ==
    << "i", "f", " ", "x", " ", "{", "\n", " ", " ", " ", " ", " ", " ", " ", " " >>
    \o StrCall \o << "\n", " ", " ", " ", " ", "}" >>

ExampleCall == [Name |-> << "F", "o", "o" >>, Body |-> << StrCall >>, Output |-> << "o" >>]

ExampleIf == [Name |-> << "F", "o", "o" >>, Body |-> << StrIf >>, Output |-> << >>]

ExampleEmpty == [Name |-> << "F", "o", "o" >>, Body |-> << >>, Output |-> << >>]

ExampleTwo ==
    [Name |-> << "B", "a", "r" >>, Body |-> << StrCall, StrIf >>, Output |-> << >>]

ExampleSuffix ==
    [Name |-> << "F", "o", "o", "_", "b", "a", "r" >>, Body |-> << StrCall >>,
     Output |-> << >>]

ExampleMethod ==
    [Name |-> << "T", "_", "D", "o" >>, Body |-> << >>, Output |-> << >>]

Examples == {ExampleCall, ExampleIf, ExampleEmpty, ExampleTwo}

\* package foo with an exported func.
FileLib ==
    Source(<< "l", "i", "b", ".", "g", "o" >>, TRUE, StrFoo,
           << FuncDecl(<< "F", "o", "o" >>, << >>, 0, 0) >>)

\* package foo under the file name of FileLib, with nothing exported but a
\* method of an unexported type.
FileLow ==
    Source(<< "l", "i", "b", ".", "g", "o" >>, TRUE, StrFoo,
           << GenDecl("type", << "t" >>), FuncDecl(<< "b", "a", "r" >>, << >>, 1, 1),
              FuncDecl(<< "D", "o" >>, << "t" >>, 0, 0) >>)

\* package foo_test in a test file, with examples for Foo, the second
\* under a suffix, and for the method Do of T.
FileExTest ==
    [Source(<< "e", "x" >> \o StrTestGo, TRUE, StrFoo \o StrTest, << >>)
        EXCEPT !.Examples = << ExampleCall, ExampleSuffix, ExampleMethod >>]

\* package foo in a test file, with an example for Foo whose body is empty.
FileEmptyTest ==
    [Source(<< "n", "o" >> \o StrTestGo, TRUE, StrFoo, << >>)
        EXCEPT !.Examples = << ExampleEmpty >>]

\* package foo with an exported type, a method of it, a func that returns
\* it and a const of it.
FileType ==
    Source(<< "t", ".", "g", "o" >>, TRUE, StrFoo,
           << GenDecl("type", << "T" >>),
              FuncDecl(<< "D", "o" >>, << "*", "T" >>, 0, 0),
              [FuncDecl(<< "N", "e", "w", "T" >>, << >>, 0, 1) EXCEPT !.typ = << "T" >>],
              [GenDecl("const", << "K" >>) EXCEPT !.typ = << "T" >>] >>)

\* package foo with a func that returns a type U and a var of type U, which
\* no file declares.
FileLost ==
    Source(<< "u", ".", "g", "o" >>, TRUE, StrFoo,
           << [FuncDecl(<< "N", "e", "w", "U" >>, << >>, 0, 1) EXCEPT !.typ = << "U" >>],
              [GenDecl("var", << "V" >>) EXCEPT !.typ = << "U" >>] >>)

\* a file that does not parse.
FileBad ==
    Source(<< "b", "a", "d", ".", "g", "o" >>, FALSE, StrFoo, << >>)

\* package documentation in doc.go, and in a second file with a const whose
\* name is an upper-case letter outside ASCII (U+00C9).
FileDoc == Source(StrDocGo, TRUE, StrDocumentation, << >>)

FileMore ==
    Source(<< "m", "o", "r", "e", ".", "g", "o" >>, TRUE, StrDocumentation,
           << GenDecl("const", << "xC3", "x89" >>) >>)

\* package main with func main().
FileMain ==
    Source(StrMain \o << ".", "g", "o" >>, TRUE, StrMain,
           << GenDecl("var", << "v" >>), FuncDecl(StrMain, << >>, 0, 0) >>)

\* package main with a method named main that takes a parameter.
FileMeth ==
    Source(<< "m", "e", "t", "h", ".", "g", "o" >>, TRUE, StrMain,
           << GenDecl("type", << "t" >>), FuncDecl(StrMain, << "t" >>, 1, 0) >>)

\* package main with a method named main without parameters or results and
\* an exported func.
FileRecv ==
    Source(<< "r", "e", "c", "v", ".", "g", "o" >>, TRUE, StrMain,
           << FuncDecl(StrMain, << "T" >>, 0, 0),
              FuncDecl(<< "R", "u", "n" >>, << >>, 0, 0) >>)

SourceFiles ==
    {FileLib, FileLow, FileBad, FileDoc, FileMore, FileMain, FileMeth,
     FileRecv, FileExTest, FileEmptyTest, FileType, FileLost}

\* The slices of at most n sources, each source at most once.
FileLists(n) ==
    UNION {{fs \in [1..k -> SourceFiles] :
               \A i \in 1..k, j \in 1..k : i # j => fs[i] # fs[j]} : k \in 0..n}

\* The most files of one call of buildDoc.
MaxFiles == 3

\* The import paths built: one that ends in foo, one that ends in main, one
\* that ends in neither, and one whose last element is main with a slash
\* after it, as the pattern of google.go lets through.
BuildPaths ==
    {<< "r", "/" >> \o StrFoo, << "r", "/" >> \o StrMain, << "r", "/", "x" >>,
     << "r", "/" >> \o StrMain \o << "/" >>}

\* The known children of the directory: none, or one.
ChildrenSets == {{}, {<< "r", "/", "x", "/", "c" >>}}

\* The most examples of one package.
MaxExamples == 2

\* The calls of package doc.
DocRequests ==
    {[fn |-> "synopsis", s |-> d] : d \in Docs}
    \cup {[fn |-> "buildDoc", importPath |-> p, files |-> fs, children |-> cs] :
            p \in BuildPaths,
            fs \in FileLists(MaxFiles),
            cs \in ChildrenSets}
    \cup {[fn |-> "getExamples", name |-> n, examples |-> es] :
            n \in {e.Name : e \in Examples},
            es \in UNION {[1..k -> Examples] : k \in 0..MaxExamples}}

(***************************************************************************)
(* The memcache helpers of package app                                     *)
(***************************************************************************)

\* The request handlers that use the helpers on the key.
Handlers == {"h1", "h2"}

\* The most calls of cacheClear in a run.
MaxClears == 2

\* What memcache holds under the key: nothing, or a value with the
\* compare-and-swap ID the service gave it; next is the ID of the next write.
\* The deleted sentinel is the value []byte{0}.
NoEntry == [present |-> FALSE, value |-> "none", cas |-> 0, next |-> 1]

Sentinel == "sentinel"

\* The entry after the service stored value under the key.
mcStore(m, value) ==
    [present |-> TRUE, value |-> value, cas |-> m.next, next |-> m.next + 1]

\* memcache.Get(c, key): the item and the error.  A failing call returns an
\* error that is not ErrCacheMiss.
mcGet(m, fails) ==
    IF fails THEN [err |-> "error", value |-> "none", cas |-> 0]
    ELSE IF ~m.present THEN [err |-> "ErrCacheMiss", value |-> "none", cas |-> 0]
    ELSE [err |-> "nil", value |-> m.value, cas |-> m.cas]

\* memcache.Set(c, item): writes whatever the key holds.
mcSet(m, value, fails) ==
    IF fails THEN [m |-> m, err |-> "error"]
    ELSE [m |-> mcStore(m, value), err |-> "nil"]

\* memcache.Add(c, item): writes if the key holds nothing.
mcAdd(m, value, fails) ==
    IF fails THEN [m |-> m, err |-> "error"]
    ELSE IF m.present THEN [m |-> m, err |-> "ErrNotStored"]
    ELSE [m |-> mcStore(m, value), err |-> "nil"]

\* memcache.CompareAndSwap(c, item): writes if the key still holds the entry
\* the item was read from.
mcCompareAndSwap(m, cas, value, fails) ==
    IF fails THEN [m |-> m, err |-> "error"]
    ELSE IF ~m.present THEN [m |-> m, err |-> "ErrNotStored"]
    ELSE IF m.cas # cas THEN [m |-> m, err |-> "ErrCASConflict"]
    ELSE [m |-> mcStore(m, value), err |-> "nil"]

\* cacheGet(c, key, value): the item returned (hasValue: item.Value is not
\* nil) and the bool.  Every value cacheSet wrote decodes.
cacheGet(m, fails) ==
    LET got == mcGet(m, fails)
    IN  IF got.err # "nil"
        THEN [item |-> [hasValue |-> FALSE, cas |-> 0], ok |-> FALSE]
        ELSE IF got.value = Sentinel
        THEN [item |-> [hasValue |-> TRUE, cas |-> got.cas], ok |-> FALSE]
        ELSE [item |-> [hasValue |-> TRUE, cas |-> got.cas], ok |-> TRUE]

\* cacheClear(c, key): memcache after the call; an error is logged only.
cacheClear(m, fails) == mcSet(m, Sentinel, fails).m

\* cacheSet(c, item, expiration, value), value encoding without error: the
\* memcache function called, its error, and memcache after the call
\* (addItem is the code's add).
cacheSet(m, isDev, item, value, fails) ==
    LET addItem == ~item.hasValue
    IN  IF addItem
        THEN [how |-> "Add"] @@ mcAdd(m, value, fails)
        ELSE IF isDev
        THEN [how |-> "Set"] @@ mcSet(m, value, fails)
        ELSE [how |-> "CompareAndSwap"] @@ mcCompareAndSwap(m, item.cas, value, fails)

\* A handler that has not called cacheGet.
IdleHandler ==
    [pc |-> "idle", item |-> [hasValue |-> FALSE, cas |-> 0], ok |-> FALSE,
     cleared |-> FALSE, lapsed |-> FALSE,
     how |-> "none", stored |-> FALSE]

\* No helper is in use.
NoServer == [isDev |-> FALSE, clears |-> 0]
NoHandlers == [h \in Handlers |-> IdleHandler]

(***************************************************************************)
(* An index of many import paths                                           *)
(***************************************************************************)

\* The paths Put past the number of identifiers.
MaxOver == 2

\* Import paths are named by the order of their first Put: 0, 1, 2, ...
\* The paths whose entry of idx.ids is kept in the state when n paths were
\* Put: the first and the newest.
Watched(n) == {0, n - 1} \cap (0..(n - 1))

\* idx.ids of the watched paths after n distinct paths were Put one after
\* the other into a new index, for n up to the number of identifiers: path
\* k found k slots and got identifier(k).
idsAfter(n) == [k \in Watched(n) |-> identifier(k)]

\* No Put was made.
NoPut == [path |-> -1, id |-> 0, ok |-> FALSE]

\* Lines 236-247 of Put on the slot count and the id map: the ID of a known
\* path is the one recorded; a new path gets the slot count converted to
\* identifier, and a slot is appended.
putMany(n, m, path) ==
    IF path \in DOMAIN m
    THEN [nslots |-> n, ids |-> m, id |-> m[path], ok |-> TRUE]
    ELSE [nslots |-> n + 1, ids |-> m @@ (path :> identifier(n)),
          id |-> identifier(n), ok |-> FALSE]

(***************************************************************************)
(* The threads that call the index concurrently                            *)
(***************************************************************************)

Threads == {"t1", "t2"}

\* No thread: the write lock is free.
NoThread == "none"

\* The calls one thread makes.
MaxCalls == 2

\* The models, paths and queries the threads call the index with.
ThreadPackages == {PkgLibA, PkgBareA, PkgLibB}
ThreadPaths == {PathRA}
ThreadSubdirPaths == {<< "r" >>}
ThreadQueries == {<< "a" >>, << "a" >> \o << " " >> \o StrImport \o << "x" >>, StrAll}

\* A thread's locals outside a call.
NoLocals ==
    [dpkg |-> NilPackage, importPath |-> << >>, q |-> << >>, sortBy |-> SortByNone,
     ok |-> FALSE, id |-> 0, masks |-> EmptyMap, ids |-> << >>, ret |-> << >>,
     raced |-> FALSE]

(***************************************************************************)
(* State                                                                   *)
(***************************************************************************)

VARIABLES
    pkgs,     \* Index.pkgs: the slots, slot id at position id + 1
    ids,      \* Index.ids: import path -> id
    terms,    \* Index.terms: term -> identifierSet
    call,     \* the last atomic call: its name, its arguments, and the model
              \* the slot of its import path held when it was made
    removed,  \* the import paths removed and not Put since
    latest,   \* import path -> the model of the last Put of it, for the
              \* paths Put and not removed since
    mu,       \* Index.mu: the thread holding the write lock, the threads
              \* holding the read lock
    pc,       \* each thread's position in the method it is running
    loc,      \* each thread's arguments and local variables
    ncalls,   \* the calls each thread has started
    lin,      \* the index the mutations made so far give when each is applied
              \* in one piece at the moment it takes the write lock
    req,      \* the call of a function of package doc: its name and arguments
    res,      \* what that call returned, with the locals the claims read
    env,      \* the app server: whether it is the dev server, and the
              \* calls of cacheClear made so far
    mc,       \* memcache: the entry of the one key the helpers are called on
    hnd,      \* each request handler's position between cacheGet and
              \* cacheSet, the item it holds, and what happened meanwhile
    nslots,   \* len(idx.pkgs) of an index that holds many import paths
    pathIds,  \* idx.ids of that index for the first path and the newest
    lastPut   \* the path of its last Put and the ID that Put used

vars ==
    << pkgs, ids, terms, call, removed, latest, mu, pc, loc, ncalls, lin, req, res,
       env, mc, hnd, nslots, pathIds, lastPut >>

\* The variables of the threads, which the atomic calls leave alone.
threadVars == << mu, pc, loc, ncalls, lin >>

\* The variables of the atomic calls, which the threads leave alone.
callVars == << call, removed, latest >>

\* The variables of the calls of package doc, which the index leaves alone.
docVars == << req, res >>

\* The variables of the memcache helpers, which all of these leave alone.
cacheVars == << env, mc, hnd >>

\* The variables of the index of many paths, which all of these leave alone.
manyVars == << nslots, pathIds, lastPut >>

\* The variables of the index, which package doc leaves alone.
indexVars == << pkgs, ids, terms, callVars, threadVars >>

\* The index as one value.
Idx == [pkgs |-> pkgs, ids |-> ids, terms |-> terms]

Init ==
    /\ pkgs = New.pkgs
    /\ ids = New.ids
    /\ terms = New.terms
    /\ call = [op |-> "New", importPath |-> << >>, dpkg |-> NilPackage, old |-> NilPackage]
    /\ removed = {}
    /\ latest = EmptyMap
    /\ mu = [writer |-> NoThread, readers |-> {}]
    /\ pc = [t \in Threads |-> "idle"]
    /\ loc = [t \in Threads |-> NoLocals]
    /\ ncalls = [t \in Threads |-> 0]
    /\ lin = New
    /\ req = NoRequest
    /\ res = NoResult
    /\ env = NoServer
    /\ mc = NoEntry
    /\ hnd = NoHandlers
    /\ nslots = 0
    /\ pathIds = EmptyMap
    /\ lastPut = NoPut

\* idx.Put(dpkg), as one atomic call.
Put(dpkg) ==
    LET x == Index_Put(Idx, dpkg)
    IN  /\ pkgs' = x.pkgs
        /\ ids' = x.ids
        /\ terms' = x.terms
        /\ call' = [op |-> "Put", importPath |-> dpkg.ImportPath, dpkg |-> dpkg,
                    old |-> Index_Get(Idx, dpkg.ImportPath).dpkg]
        /\ removed' = removed \ {dpkg.ImportPath}
        /\ latest' = [u \in DOMAIN latest \cup {dpkg.ImportPath} |->
                          IF u = dpkg.ImportPath THEN dpkg ELSE latest[u]]
        /\ UNCHANGED << threadVars, docVars, cacheVars, manyVars >>

\* idx.Remove(importPath), as one atomic call.
Remove(importPath) ==
    LET x == Index_Remove(Idx, importPath)
    IN  /\ pkgs' = x.pkgs
        /\ ids' = x.ids
        /\ terms' = x.terms
        /\ call' = [op |-> "Remove", importPath |-> importPath, dpkg |-> NilPackage,
                    old |-> Index_Get(Idx, importPath).dpkg]
        /\ removed' = removed \cup {importPath}
        /\ latest' = [u \in DOMAIN latest \ {importPath} |-> latest[u]]
        /\ UNCHANGED << threadVars, docVars, cacheVars, manyVars >>

Next ==
    \/ \E dpkg \in Packages : Put(dpkg)
    \/ \E importPath \in RemovePaths : Remove(importPath)

Spec == Init /\ [][Next]_vars

(***************************************************************************)
(* The methods step by step, run by threads under Index.mu                 *)
(***************************************************************************)

\* mu.Lock() can return: no writer and no reader holds the lock.
CanLock == mu.writer = NoThread /\ mu.readers = {}

\* An RLock that does not wait for the writer.
CanRLock_ignoresWriter == TRUE

\* mu.RLock() can return: no writer holds the lock.
CanRLock == mu.writer = NoThread

\* The map m without key k.
WithoutKey(m, k) == [u \in DOMAIN m \ {k} |-> m[u]]

\* A thread calls idx.Put(dpkg): lines 203-232, the score, the ipackage and
\* the addMask terms of dpkg, all local.
PutBegin(t, dpkg) ==
    /\ pc[t] = "idle"
    /\ ncalls[t] < MaxCalls
    /\ ncalls' = [ncalls EXCEPT ![t] = @ + 1]
    /\ pc' = [pc EXCEPT ![t] = "PutLock"]
    /\ loc' = [loc EXCEPT ![t] = [NoLocals EXCEPT !.dpkg = dpkg,
                  !.importPath = dpkg.ImportPath,
                  !.masks = addPackageTerms(EmptyMap, addMask, dpkg)]]
    /\ UNCHANGED << pkgs, ids, terms, mu, lin, callVars, docVars, cacheVars, manyVars >>

\* idx.mu.Lock() of Put.
PutLock(t) ==
    /\ pc[t] = "PutLock"
    /\ CanLock
    /\ mu' = [mu EXCEPT !.writer = t]
    /\ lin' = Index_Put(lin, loc[t].dpkg)
    /\ pc' = [pc EXCEPT ![t] = "PutSlot"]
    /\ UNCHANGED << pkgs, ids, terms, loc, ncalls, callVars, docVars, cacheVars, manyVars >>

\* Lines 237-247 of Put: the id, the removeMask terms of the old model, the
\* slot.
PutSlot(t) ==
    /\ pc[t] = "PutSlot"
    /\ loc' = [loc EXCEPT ![t].id = putId(Idx, loc[t].dpkg),
                          ![t].masks = putOldMasks(Idx, loc[t].masks, loc[t].dpkg)]
    /\ pkgs' = putSlot(Idx, loc[t].dpkg).pkgs
    /\ ids' = putSlot(Idx, loc[t].dpkg).ids
    /\ pc' = [pc EXCEPT ![t] = "PutTerms"]
    /\ UNCHANGED << terms, mu, ncalls, lin, callVars, docVars, cacheVars, manyVars >>

\* One iteration of the loop of lines 249-256, over the masks in any order.
PutTerm(t) ==
    /\ pc[t] = "PutTerms"
    /\ \E u \in DOMAIN loc[t].masks :
          /\ terms' = putTerm(terms, u, loc[t].masks[u], loc[t].id)
          /\ loc' = [loc EXCEPT ![t].masks = WithoutKey(loc[t].masks, u)]
    /\ UNCHANGED << pkgs, ids, mu, pc, ncalls, lin, callVars, docVars, cacheVars, manyVars >>

\* The loop is over: Put returns and its deferred Unlock runs.
PutUnlock(t) ==
    /\ pc[t] = "PutTerms"
    /\ DOMAIN loc[t].masks = {}
    /\ mu' = [mu EXCEPT !.writer = NoThread]
    /\ pc' = [pc EXCEPT ![t] = "idle"]
    /\ loc' = [loc EXCEPT ![t] = NoLocals]
    /\ UNCHANGED << pkgs, ids, terms, ncalls, lin, callVars, docVars, cacheVars, manyVars >>

\* A thread calls idx.Remove(importPath).
RemoveBegin(t, importPath) ==
    /\ pc[t] = "idle"
    /\ ncalls[t] < MaxCalls
    /\ ncalls' = [ncalls EXCEPT ![t] = @ + 1]
    /\ pc' = [pc EXCEPT ![t] = "RemoveLock"]
    /\ loc' = [loc EXCEPT ![t] = [NoLocals EXCEPT !.importPath = importPath]]
    /\ UNCHANGED << pkgs, ids, terms, mu, lin, callVars, docVars, cacheVars, manyVars >>

\* idx.mu.Lock() of Remove.
RemoveLock(t) ==
    /\ pc[t] = "RemoveLock"
    /\ CanLock
    /\ mu' = [mu EXCEPT !.writer = t]
    /\ lin' = Index_Remove(lin, loc[t].importPath)
    /\ pc' = [pc EXCEPT ![t] = "RemoveLookup"]
    /\ UNCHANGED << pkgs, ids, terms, loc, ncalls, callVars, docVars, cacheVars, manyVars >>

\* Lines 275-278 of Remove: the id, the slot, the terms of its model.
RemoveLookup(t) ==
    /\ pc[t] = "RemoveLookup"
    /\ IF /\ loc[t].importPath \in DOMAIN ids
          /\ ~pkgs[ids[loc[t].importPath] + 1].isNil
       THEN /\ loc' = [loc EXCEPT ![t].ok = TRUE,
                          ![t].id = ids[loc[t].importPath],
                          ![t].masks = addPackageTerms(EmptyMap, 0,
                                           pkgs[ids[loc[t].importPath] + 1].dpkg)]
            /\ pc' = [pc EXCEPT ![t] = "RemoveTerms"]
       ELSE /\ loc' = loc
            /\ pc' = [pc EXCEPT ![t] = "RemoveUnlock"]
    /\ UNCHANGED << pkgs, ids, terms, mu, ncalls, lin, callVars, docVars, cacheVars, manyVars >>

\* One iteration of the loop of lines 279-281, over the terms in any order.
RemoveTerm(t) ==
    /\ pc[t] = "RemoveTerms"
    /\ \E u \in DOMAIN loc[t].masks :
          /\ terms' = removeTerm(terms, u, loc[t].id)
          /\ loc' = [loc EXCEPT ![t].masks = WithoutKey(loc[t].masks, u)]
    /\ UNCHANGED << pkgs, ids, mu, pc, ncalls, lin, callVars, docVars, cacheVars, manyVars >>

\* Line 282 of Remove: idx.pkgs[id] = nil.
RemoveSlot(t) ==
    /\ pc[t] = "RemoveTerms"
    /\ DOMAIN loc[t].masks = {}
    /\ pkgs' = [pkgs EXCEPT ![loc[t].id + 1] = NilPackage]
    /\ pc' = [pc EXCEPT ![t] = "RemoveUnlock"]
    /\ UNCHANGED << ids, terms, mu, loc, ncalls, lin, callVars, docVars, cacheVars, manyVars >>

\* Remove returns and its deferred Unlock runs.
RemoveUnlock(t) ==
    /\ pc[t] = "RemoveUnlock"
    /\ mu' = [mu EXCEPT !.writer = NoThread]
    /\ pc' = [pc EXCEPT ![t] = "idle"]
    /\ loc' = [loc EXCEPT ![t] = NoLocals]
    /\ UNCHANGED << pkgs, ids, terms, ncalls, lin, callVars, docVars, cacheVars, manyVars >>

\* A thread calls idx.Query(q, sortBy).
QueryBegin(t, q, sortBy) ==
    /\ pc[t] = "idle"
    /\ ncalls[t] < MaxCalls
    /\ ncalls' = [ncalls EXCEPT ![t] = @ + 1]
    /\ pc' = [pc EXCEPT ![t] = "QueryRLock"]
    /\ loc' = [loc EXCEPT ![t] = [NoLocals EXCEPT !.q = q, !.sortBy = sortBy]]
    /\ UNCHANGED << pkgs, ids, terms, mu, lin, callVars, docVars, cacheVars, manyVars >>

\* idx.mu.RLock() of Query.
QueryRLock(t) ==
    /\ pc[t] = "QueryRLock"
    /\ CanRLock
    /\ mu' = [mu EXCEPT !.readers = @ \cup {t}]
    /\ pc' = [pc EXCEPT ![t] = "QueryIds"]
    /\ UNCHANGED << pkgs, ids, terms, loc, ncalls, lin, callVars, docVars, cacheVars, manyVars >>

\* Lines 318-330 of Query: the identifiers, from the postings table ("all:"
\* reads no postings).
QueryIds(t) ==
    /\ pc[t] = "QueryIds"
    /\ loc' = [loc EXCEPT ![t].ids =
                  IF loc[t].q = StrAll THEN << >> ELSE queryIds(Idx, loc[t].q)]
    /\ pc' = [pc EXCEPT ![t] = "QueryResults"]
    /\ UNCHANGED << pkgs, ids, terms, mu, ncalls, lin, callVars, docVars, cacheVars, manyVars >>

\* Lines 311-316 or 331 of Query, and the sort: the results, from the slots.
QueryResults(t) ==
    /\ pc[t] = "QueryResults"
    /\ \E rs \in sortOutcomes(IF loc[t].q = StrAll
                              THEN allFrom(Idx, 1)
                              ELSE Index_results(Idx, loc[t].ids),
                              loc[t].sortBy) :
          loc' = [loc EXCEPT ![t].ret = rs]
    /\ pc' = [pc EXCEPT ![t] = "QueryRUnlock"]
    /\ UNCHANGED << pkgs, ids, terms, mu, ncalls, lin, callVars, docVars, cacheVars, manyVars >>

\* Query returns and its deferred RUnlock runs.
QueryRUnlock(t) ==
    /\ pc[t] = "QueryRUnlock"
    /\ mu' = [mu EXCEPT !.readers = @ \ {t}]
    /\ pc' = [pc EXCEPT ![t] = "idle"]
    /\ loc' = [loc EXCEPT ![t] = NoLocals]
    /\ UNCHANGED << pkgs, ids, terms, ncalls, lin, callVars, docVars, cacheVars, manyVars >>

\* A thread calls idx.Subdirs(importPath).
SubdirsBegin(t, importPath) ==
    /\ pc[t] = "idle"
    /\ ncalls[t] < MaxCalls
    /\ ncalls' = [ncalls EXCEPT ![t] = @ + 1]
    /\ pc' = [pc EXCEPT ![t] = "SubdirsRLock"]
    /\ loc' = [loc EXCEPT ![t] = [NoLocals EXCEPT !.importPath = importPath]]
    /\ UNCHANGED << pkgs, ids, terms, mu, lin, callVars, docVars, cacheVars, manyVars >>

\* idx.mu.RLock() of Subdirs.
SubdirsRLock(t) ==
    /\ pc[t] = "SubdirsRLock"
    /\ CanRLock
    /\ mu' = [mu EXCEPT !.readers = @ \cup {t}]
    /\ pc' = [pc EXCEPT ![t] = "SubdirsFind"]
    /\ UNCHANGED << pkgs, ids, terms, loc, ncalls, lin, callVars, docVars, cacheVars, manyVars >>

\* The loop of Subdirs up to the project's postings, from the postings
\* table.
SubdirsFind(t) ==
    /\ pc[t] = "SubdirsFind"
    /\ loc' = [loc EXCEPT ![t].ok = subdirsFind(Idx, loc[t].importPath).ok,
                          ![t].ids = subdirsFind(Idx, loc[t].importPath).ids]
    /\ pc' = [pc EXCEPT ![t] = "SubdirsFilter"]
    /\ UNCHANGED << pkgs, ids, terms, mu, ncalls, lin, callVars, docVars, cacheVars, manyVars >>

\* Lines 354-360 of Subdirs: the filter, from the slots.
SubdirsFilter(t) ==
    /\ pc[t] = "SubdirsFilter"
    /\ loc' = [loc EXCEPT ![t].ret =
                  IF loc[t].ok
                  THEN subdirsFilter(Idx, loc[t].ids, loc[t].importPath \o << "/" >>, 1)
                  ELSE << >>]
    /\ pc' = [pc EXCEPT ![t] = "SubdirsRUnlock"]
    /\ UNCHANGED << pkgs, ids, terms, mu, ncalls, lin, callVars, docVars, cacheVars, manyVars >>

\* Subdirs returns and its deferred RUnlock runs.
SubdirsRUnlock(t) ==
    /\ pc[t] = "SubdirsRUnlock"
    /\ mu' = [mu EXCEPT !.readers = @ \ {t}]
    /\ pc' = [pc EXCEPT ![t] = "idle"]
    /\ loc' = [loc EXCEPT ![t] = NoLocals]
    /\ UNCHANGED << pkgs, ids, terms, ncalls, lin, callVars, docVars, cacheVars, manyVars >>

\* What a read that races with a writer may yield, beside the value in
\* memory: the Go memory model gives an unsynchronised read of a map or
\* slice under modification no defined result.
RaceResult == [dpkg |-> NilPackage, err |-> "undefined: data race"]

\* A thread calls idx.Get(importPath).  Get takes no lock.
GetBegin(t, importPath) ==
    /\ pc[t] = "idle"
    /\ ncalls[t] < MaxCalls
    /\ ncalls' = [ncalls EXCEPT ![t] = @ + 1]
    /\ pc' = [pc EXCEPT ![t] = "GetIds"]
    /\ loc' = [loc EXCEPT ![t] = [NoLocals EXCEPT !.importPath = importPath]]
    /\ UNCHANGED << pkgs, ids, terms, mu, lin, callVars, docVars, cacheVars, manyVars >>

\* Line 262 of Get: id, ok := idx.ids[importPath].
GetIds(t) ==
    /\ pc[t] = "GetIds"
    /\ loc' = [loc EXCEPT ![t].ok = loc[t].importPath \in DOMAIN ids,
                          ![t].id = IF loc[t].importPath \in DOMAIN ids
                                    THEN ids[loc[t].importPath] ELSE 0,
                          ![t].raced = mu.writer # NoThread]
    /\ pc' = [pc EXCEPT ![t] = "GetSlot"]
    /\ UNCHANGED << pkgs, ids, terms, mu, ncalls, lin, callVars, docVars, cacheVars, manyVars >>

\* Lines 263-267 of Get: the slot and the result.
GetSlot(t) ==
    /\ pc[t] = "GetSlot"
    /\ \E r \in {IF loc[t].ok /\ ~pkgs[loc[t].id + 1].isNil
                 THEN [dpkg |-> pkgs[loc[t].id + 1].dpkg, err |-> NoError]
                 ELSE [dpkg |-> NilPackage, err |-> ErrPackageNotFound]}
                \cup (IF loc[t].raced \/ mu.writer # NoThread THEN {RaceResult} ELSE {}) :
          loc' = [loc EXCEPT ![t].ret = r,
                             ![t].raced = loc[t].raced \/ mu.writer # NoThread]
    /\ pc' = [pc EXCEPT ![t] = "GetReturn"]
    /\ UNCHANGED << pkgs, ids, terms, mu, ncalls, lin, callVars, docVars, cacheVars, manyVars >>

\* Get returns.
GetReturn(t) ==
    /\ pc[t] = "GetReturn"
    /\ pc' = [pc EXCEPT ![t] = "idle"]
    /\ loc' = [loc EXCEPT ![t] = NoLocals]
    /\ UNCHANGED << pkgs, ids, terms, mu, ncalls, lin, callVars, docVars, cacheVars, manyVars >>

ThreadNext ==
    \E t \in Threads :
        \/ \E dpkg \in ThreadPackages : PutBegin(t, dpkg)
        \/ PutLock(t)
        \/ PutSlot(t)
        \/ PutTerm(t)
        \/ PutUnlock(t)
        \/ \E importPath \in ThreadPaths : RemoveBegin(t, importPath)
        \/ RemoveLock(t)
        \/ RemoveLookup(t)
        \/ RemoveTerm(t)
        \/ RemoveSlot(t)
        \/ RemoveUnlock(t)
        \/ \E q \in ThreadQueries : \E sortBy \in SortModes : QueryBegin(t, q, sortBy)
        \/ QueryRLock(t)
        \/ QueryIds(t)
        \/ QueryResults(t)
        \/ QueryRUnlock(t)
        \/ \E importPath \in ThreadSubdirPaths : SubdirsBegin(t, importPath)
        \/ SubdirsRLock(t)
        \/ SubdirsFind(t)
        \/ SubdirsFilter(t)
        \/ SubdirsRUnlock(t)
        \/ \E importPath \in ThreadPaths : GetBegin(t, importPath)
        \/ GetIds(t)
        \/ GetSlot(t)
        \/ GetReturn(t)

ThreadSpec == Init /\ [][ThreadNext]_vars

(***************************************************************************)
(* The calls of package doc                                                *)
(***************************************************************************)

\* A call of package doc is chosen; the index is a new one and stays so.
DocInit ==
    /\ pkgs = New.pkgs
    /\ ids = New.ids
    /\ terms = New.terms
    /\ call = [op |-> "New", importPath |-> << >>, dpkg |-> NilPackage, old |-> NilPackage]
    /\ removed = {}
    /\ latest = EmptyMap
    /\ mu = [writer |-> NoThread, readers |-> {}]
    /\ pc = [t \in Threads |-> "idle"]
    /\ loc = [t \in Threads |-> NoLocals]
    /\ ncalls = [t \in Threads |-> 0]
    /\ lin = New
    /\ req \in DocRequests
    /\ res = NoResult
    /\ env = NoServer
    /\ mc = NoEntry
    /\ hnd = NoHandlers
    /\ nslots = 0
    /\ pathIds = EmptyMap
    /\ lastPut = NoPut

\* synopsis(s) runs.
Synopsis ==
    /\ req.fn = "synopsis"
    /\ res = NoResult
    /\ res' = [fn |-> "synopsis", buf |-> synopsisBuf(req.s), ret |-> synopsis(req.s)]
    /\ UNCHANGED << req, indexVars, cacheVars, manyVars >>

\* buildDoc(importPath, lineFmt, files, children) runs, the two ranges over
\* maps visiting their keys in any order.
BuildDoc ==
    /\ req.fn = "buildDoc"
    /\ res = NoResult
    /\ \E pkgOrder \in Perms(DOMAIN buildPkgs(req.files)) :
          \E mainOrder \in (IF StrMain \in DOMAIN buildPkgs(req.files)
                            THEN Perms(buildPkgs(req.files)[StrMain])
                            ELSE {<< >>}) :
              res' = [fn |-> "buildDoc", pkgOrder |-> pkgOrder, mainOrder |-> mainOrder]
                     @@ buildDocRun(req.importPath, req.files, req.children,
                                    pkgOrder, mainOrder)
    /\ UNCHANGED << req, indexVars, cacheVars, manyVars >>

\* b.getExamples(name) runs on the examples buildDoc collected.
GetExamples ==
    /\ req.fn = "getExamples"
    /\ res = NoResult
    /\ res' = [fn |-> "getExamples", ret |-> getExamples(req.examples, req.name)]
    /\ UNCHANGED << req, indexVars, cacheVars, manyVars >>

DocNext == Synopsis \/ BuildDoc \/ GetExamples

DocSpec == DocInit /\ [][DocNext]_vars

(***************************************************************************)
(* The calls of identifierSet                                              *)
(***************************************************************************)

\* The largest identifier of the sets tried.
MaxId == 4

\* The elements of S in ascending order.
RECURSIVE Ascending(_)
Ascending(S) ==
    IF S = {}
    THEN << >>
    ELSE LET m == CHOOSE x \in S : \A y \in S : x <= y
         IN  << m >> \o Ascending(S \ {m})

\* The identifierSets the index builds: sorted, without duplicates.
SortedSets == {Ascending(S) : S \in SUBSET (0..MaxId)}

SetRequests ==
    {[fn |-> "addRemove", ids |-> s, id |-> v] : s \in SortedSets, v \in 0..MaxId}
    \cup {[fn |-> "intersect", ids |-> a, other |-> b] :
            a \in SortedSets, b \in SortedSets}

\* A call on identifierSets is chosen; the index is a new one and stays so.
SetInit ==
    /\ pkgs = New.pkgs
    /\ ids = New.ids
    /\ terms = New.terms
    /\ call = [op |-> "New", importPath |-> << >>, dpkg |-> NilPackage, old |-> NilPackage]
    /\ removed = {}
    /\ latest = EmptyMap
    /\ mu = [writer |-> NoThread, readers |-> {}]
    /\ pc = [t \in Threads |-> "idle"]
    /\ loc = [t \in Threads |-> NoLocals]
    /\ ncalls = [t \in Threads |-> 0]
    /\ lin = New
    /\ req \in SetRequests
    /\ res = NoResult
    /\ env = NoServer
    /\ mc = NoEntry
    /\ hnd = NoHandlers
    /\ nslots = 0
    /\ pathIds = EmptyMap
    /\ lastPut = NoPut

\* ids.add(id).remove(id) runs, as in TestSets on a copy of the set.
AddRemove ==
    /\ req.fn = "addRemove"
    /\ res = NoResult
    /\ res' = [fn |-> "addRemove", added |-> add(req.ids, req.id),
               ret |-> remove(add(req.ids, req.id), req.id)]
    /\ UNCHANGED << req, indexVars, cacheVars, manyVars >>

\* ids.intersect(identifierSet{}, other) runs, and other.intersect of ids,
\* and ids.intersect(ids[:0], other) on a copy of ids.
Intersect ==
    /\ req.fn = "intersect"
    /\ res = NoResult
    /\ res' = [fn |-> "intersect",
               ret |-> intersect(req.ids, << >>, req.other),
               swapped |-> intersect(req.other, << >>, req.ids),
               shared |-> intersectShared(req.ids, req.other)]
    /\ UNCHANGED << req, indexVars, cacheVars, manyVars >>

SetNext == AddRemove \/ Intersect

SetSpec == SetInit /\ [][SetNext]_vars

(***************************************************************************)
(* The calls of the memcache helpers                                       *)
(***************************************************************************)

\* The helpers run on a production or a dev server, the key not cached; the
\* index is a new one and stays so.
CacheInit ==
    /\ pkgs = New.pkgs
    /\ ids = New.ids
    /\ terms = New.terms
    /\ call = [op |-> "New", importPath |-> << >>, dpkg |-> NilPackage, old |-> NilPackage]
    /\ removed = {}
    /\ latest = EmptyMap
    /\ mu = [writer |-> NoThread, readers |-> {}]
    /\ pc = [t \in Threads |-> "idle"]
    /\ loc = [t \in Threads |-> NoLocals]
    /\ ncalls = [t \in Threads |-> 0]
    /\ lin = New
    /\ req = NoRequest
    /\ res = NoResult
    /\ env \in {[isDev |-> d, clears |-> 0] : d \in BOOLEAN}
    /\ mc = NoEntry
    /\ hnd = NoHandlers
    /\ nslots = 0
    /\ pathIds = EmptyMap
    /\ lastPut = NoPut

\* Handler h calls cacheGet(c, key, &value); memcache.Get fails or not.
CacheGet(h) ==
    /\ hnd[h].pc = "idle"
    /\ \E fails \in BOOLEAN :
          LET r == cacheGet(mc, fails)
          IN  hnd' = [hnd EXCEPT ![h] = [IdleHandler EXCEPT !.pc = "got",
                                                          !.item = r.item,
                                                          !.ok = r.ok]]
    /\ UNCHANGED << env, mc, indexVars, docVars, manyVars >>

\* Some request calls cacheClear(c, key); memcache.Set fails or not.  The
\* handlers that hold an item note that cacheClear ran.
CacheClear ==
    /\ env.clears < MaxClears
    /\ env' = [env EXCEPT !.clears = @ + 1]
    /\ \E fails \in BOOLEAN :
          /\ mc' = cacheClear(mc, fails)
          /\ hnd' = [h \in Handlers |->
                        IF hnd[h].pc = "got"
                        THEN [hnd[h] EXCEPT !.cleared = TRUE]
                        ELSE hnd[h]]
    /\ UNCHANGED << indexVars, docVars, manyVars >>

\* The entry of the key leaves memcache: its expiration has passed (60
\* seconds for the sentinel) or the service evicted it.
Expire ==
    /\ mc.present
    /\ mc' = [mc EXCEPT !.present = FALSE, !.value = "none", !.cas = 0]
    /\ hnd' = [h \in Handlers |->
                  IF hnd[h].pc = "got" /\ hnd[h].cleared
                  THEN [hnd[h] EXCEPT !.lapsed = TRUE]
                  ELSE hnd[h]]
    /\ UNCHANGED << env, indexVars, docVars, manyVars >>

\* Handler h calls cacheSet(c, item, expiration, value) with the item of its
\* cacheGet and a value of its own; the memcache call fails or not.
CacheSet(h) ==
    /\ hnd[h].pc = "got"
    /\ \E fails \in BOOLEAN :
          LET r == cacheSet(mc, env.isDev, hnd[h].item, h, fails)
          IN  /\ mc' = r.m
              /\ hnd' = [hnd EXCEPT ![h].pc = "done",
                                    ![h].how = r.how,
                                    ![h].stored = (r.err = "nil")]
    /\ UNCHANGED << env, indexVars, docVars, manyVars >>

CacheNext ==
    \/ \E h \in Handlers : CacheGet(h)
    \/ CacheClear
    \/ Expire
    \/ \E h \in Handlers : CacheSet(h)

CacheSpec == CacheInit /\ [][CacheNext]_vars

(***************************************************************************)
(* Puts into an index of many import paths                                 *)
(***************************************************************************)

\* The index is new, or any number of distinct paths below the number of
\* identifiers have been Put; the small index is a new one and stays so.
ManyInit ==
    /\ pkgs = New.pkgs
    /\ ids = New.ids
    /\ terms = New.terms
    /\ call = [op |-> "New", importPath |-> << >>, dpkg |-> NilPackage, old |-> NilPackage]
    /\ removed = {}
    /\ latest = EmptyMap
    /\ mu = [writer |-> NoThread, readers |-> {}]
    /\ pc = [t \in Threads |-> "idle"]
    /\ loc = [t \in Threads |-> NoLocals]
    /\ ncalls = [t \in Threads |-> 0]
    /\ lin = New
    /\ req = NoRequest
    /\ res = NoResult
    /\ env = NoServer
    /\ mc = NoEntry
    /\ hnd = NoHandlers
    /\ nslots \in 0..(identifierSpace - 1)
    /\ pathIds = idsAfter(nslots)
    /\ lastPut = NoPut

\* idx.Put of a package whose import path was not Put before.
PutNewPath ==
    /\ nslots < identifierSpace + MaxOver
    /\ LET r == putMany(nslots, pathIds, nslots)
       IN  /\ nslots' = r.nslots
           /\ pathIds' = [k \in Watched(r.nslots) |-> r.ids[k]]
           /\ lastPut' = [path |-> nslots, id |-> r.id, ok |-> r.ok]
    /\ UNCHANGED << indexVars, docVars, cacheVars >>

\* idx.Put of a package whose import path is a watched one.
PutKnownPath(path) ==
    /\ path \in DOMAIN pathIds
    /\ LET r == putMany(nslots, pathIds, path)
       IN  /\ nslots' = r.nslots
           /\ pathIds' = r.ids
           /\ lastPut' = [path |-> path, id |-> r.id, ok |-> r.ok]
    /\ UNCHANGED << indexVars, docVars, cacheVars >>

ManyNext ==
    \/ PutNewPath
    \/ \E path \in DOMAIN pathIds : PutKnownPath(path)

ManySpec == ManyInit /\ [][ManyNext]_vars

(***************************************************************************)
(* What the calls return, as sets of import paths                          *)
(***************************************************************************)

\* The import paths of a result list.
ResultPaths(rs) == {rs[i].ImportPath : i \in 1..Len(rs)}

\* The import paths Query(q, sortBy) returns on index x, under any sortBy.
QueryReturns(x, q) ==
    UNION {ResultPaths(rs) : rs \in UNION {Index_Query(x, q, m) : m \in SortModes}}

\* The import paths Subdirs(importPath) returns on index x.
SubdirsReturns(x, importPath) == ResultPaths(Index_Subdirs(x, importPath))

\* The models the slots of x hold.
Stored(x) == {x.pkgs[i].dpkg : i \in {j \in 1..Len(x.pkgs) : ~x.pkgs[j].isNil}}

\* The strings of the name, final-segment and import terms of dpkg.
SearchStrings(dpkg) ==
    {dpkg.Name, pathSplitFile(dpkg.ImportPath)}
    \cup {StrImport \o dpkg.Imports[i] : i \in 1..Len(dpkg.Imports)}

(***************************************************************************)
(* C1                                                                      *)
(***************************************************************************)

\* C1: when Put(v2) replaces a stored model v1 of the same import path, a
\* one-term query returns that path if and only if the term is one of the
\* terms addPackageTerms derives from v2; no term of v1 alone still
\* resolves to it.
C1_UpdateCorrectness ==
    (call.op = "Put" /\ call.old # NilPackage) =>
        \A t \in TermStrings :
            (call.importPath \in QueryReturns(Idx, t))
                <=> (makeTerm(t) \in packageTerms(call.dpkg))

\* A Put has replaced a model that had a term the new model lacks, and the
\* query for that term no longer returns the path.
C1_Witness ==
    /\ call.op = "Put"
    /\ call.old # NilPackage
    /\ \E t \in TermStrings :
          /\ makeTerm(t) \in packageTerms(call.old) \ packageTerms(call.dpkg)
          /\ call.importPath \notin QueryReturns(Idx, t)
    /\ \E t \in TermStrings :
          /\ makeTerm(t) \in packageTerms(call.dpkg) \ packageTerms(call.old)
          /\ call.importPath \in QueryReturns(Idx, t)

(***************************************************************************)
(* C2                                                                      *)
(***************************************************************************)

\* C2: while an import path is removed and not Put again, Get of it returns
\* the not-found error and no Query (of any words, of one term, or "all:")
\* and no Subdirs call returns it.
C2_RemovedStaysGone ==
    \A p \in removed :
        /\ Index_Get(Idx, p) = [dpkg |-> NilPackage, err |-> ErrPackageNotFound]
        /\ \A q \in Queries \cup TermStrings : p \notin QueryReturns(Idx, q)
        /\ \A d \in SubdirPaths : p \notin SubdirsReturns(Idx, d)

\* A stored, searchable package was removed, and another call was made
\* after the removal while the path stayed removed.
C2_Witness ==
    /\ PathRAB \in removed
    /\ PathRAB \in DOMAIN ids
    /\ call.op = "Put"
    /\ call.importPath = PathRA
    /\ call.old # NilPackage
    /\ packageTerms(call.dpkg) # {}

(***************************************************************************)
(* C3                                                                      *)
(***************************************************************************)

\* C3: in the state a Put(pkg) leaves, a second Put of the same pkg changes
\* the result of no Query, Subdirs or Get, and adds no key and no ID to the
\* postings table.
C3_PutIdempotent ==
    call.op = "Put" =>
        LET again == Index_Put(Idx, call.dpkg)
        IN  /\ \A q \in Queries \cup TermStrings : \A m \in SortModes :
                   Index_Query(again, q, m) = Index_Query(Idx, q, m)
            /\ \A d \in SubdirPaths : Index_Subdirs(again, d) = Index_Subdirs(Idx, d)
            /\ \A p \in ImportPaths : Index_Get(again, p) = Index_Get(Idx, p)
            /\ DOMAIN again.terms \subseteq DOMAIN terms
            /\ \A t \in DOMAIN again.terms :
                   \A i \in 1..Len(again.terms[t]) :
                       \E j \in 1..Len(terms[t]) : terms[t][j] = again.terms[t][i]

\* A Put of a package with terms has been made into an index that holds
\* another package too.
C3_Witness ==
    /\ call.op = "Put"
    /\ Cardinality(packageTerms(call.dpkg)) > 1
    /\ Cardinality(Stored(Idx)) = 2
    /\ call.old # NilPackage

(***************************************************************************)
(* C4                                                                      *)
(***************************************************************************)

\* The import paths of the stored entries whose IDs are in the postings of
\* every one of the fields.
InAllPostings(x, fields) ==
    {x.pkgs[i].result.ImportPath :
        i \in {j \in 1..Len(x.pkgs) :
                 /\ ~x.pkgs[j].isNil
                 /\ \A k \in 1..Len(fields) :
                        \E n \in 1..Len(postings(x, makeTerm(fields[k]))) :
                            postings(x, makeTerm(fields[k]))[n] = j - 1}}

\* C4: a query of k >= 1 words returns exactly the stored entries whose IDs
\* are in the postings of all k words, for every k; a query of no word
\* returns nothing.
C4_QueryIsIntersection ==
    \A q \in Queries \ {StrAll} :
        QueryReturns(Idx, q) =
            IF Len(Fields(q)) = 0 THEN {} ELSE InAllPostings(Idx, Fields(q))

(***************************************************************************)
(* C5                                                                      *)
(***************************************************************************)

\* C5: after Put of a library package with a non-empty Name, the queries
\* for its Name, for "project:" + ProjectRoot and for "import:" + p, p each
\* of its Imports, each return its import path; index_test.go expects this
\* of packages that list no exported declaration.
C5_PutIsSearchable ==
    (call.op = "Put" /\ call.dpkg.Name # << >> /\ ~call.dpkg.IsCmd) =>
        /\ call.importPath \in QueryReturns(Idx, call.dpkg.Name)
        /\ call.importPath \in QueryReturns(Idx, StrProject \o call.dpkg.ProjectRoot)
        /\ \A i \in 1..Len(call.dpkg.Imports) :
               call.importPath \in QueryReturns(Idx, StrImport \o call.dpkg.Imports[i])

(***************************************************************************)
(* C6                                                                      *)
(***************************************************************************)

\* importPath is R or a path below R.
AtOrBelow(importPath, R) ==
    importPath = R \/ HasPrefix(importPath, R \o << "/" >>)

\* C6: if named packages with project root R are stored, then
\* for every importPath at or below R, Subdirs(importPath) returns exactly
\* the stored entries with project root R and a name whose import path
\* starts with importPath + "/".
C6_SubdirsOfAnyRoot ==
    \A R \in {p.ProjectRoot : p \in Stored(Idx)} :
        \A d \in {e \in SubdirPaths : AtOrBelow(e, R)} :
            SubdirsReturns(Idx, d) =
                {e.ImportPath : e \in {s \in Stored(Idx) :
                    /\ s.ProjectRoot = R
                    /\ s.Name # << >>
                    /\ HasPrefix(s.ImportPath, d \o << "/" >>)}}

\* The paths the loop of Subdirs visits from importPath: importPath and the
\* non-empty prefixes of it that end just before a slash.
WalkedPaths(importPath) ==
    {SubSeq(importPath, 1, k) :
        k \in {n \in 1..Len(importPath) : n = Len(importPath) \/ importPath[n + 1] = "/"}}

\* The visited paths that have a key "project:" + path in the postings
\* table (a key stays, with empty postings, when its packages are gone).
KeyedRoots(x, importPath) ==
    {a \in WalkedPaths(importPath) : makeTerm(StrProject \o a) \in DOMAIN x.terms}

\* The longest of a non-empty set of prefixes of one path.
Longest(S) == CHOOSE a \in S : \A b \in S : Len(b) <= Len(a)

\* The visited paths that are the project root of a stored package with a
\* name: the ancestors with an indexed "project:" term.
LiveRoots(x, importPath) ==
    {a \in WalkedPaths(importPath) :
        \E s \in Stored(x) : s.Name # << >> /\ s.ProjectRoot = a}

\* C6 for the nearest root alone, as the walk upward of the claim and of
\* the spec has it: if R is the first path, walking from importPath upward,
\* that is the project root of a stored package with a name, Subdirs
\* returns exactly the stored entries with project root R and a name whose
\* import path starts with importPath + "/".  C6_SubdirsOfAnyRoot implies
\* it; only a "project:" key left behind by Remove or by a replacing Put
\* violates it.
C6_SubdirsOfNearestLiveRoot ==
    \A d \in SubdirPaths :
        LiveRoots(Idx, d) # {} =>
            SubdirsReturns(Idx, d) =
                {e.ImportPath : e \in {s \in Stored(Idx) :
                    /\ s.ProjectRoot = Longest(LiveRoots(Idx, d))
                    /\ s.Name # << >>
                    /\ HasPrefix(s.ImportPath, d \o << "/" >>)}}

(***************************************************************************)
(* C7                                                                      *)
(***************************************************************************)

\* Thread u holds the writer lock inside the statements of Put or Remove
\* that write the import-path-to-ID map or the slot array (Put's lines
\* 237-247, Remove's line 282).
WritesSlots(u) ==
    /\ mu.writer = u
    /\ \/ pc[u] = "PutSlot"
       \/ pc[u] = "RemoveTerms" /\ DOMAIN loc[u].masks = {}

\* Thread t is inside Get's lookup: about to read the import-path-to-ID
\* map or the slot array.
InGetLookup(t) == pc[t] \in {"GetIds", "GetSlot"}

\* C7: no Get is inside its lookup of the import-path-to-ID map and the
\* slot array while a Put or Remove holds the writer lock and is writing
\* them.
C7_GetExcludesWriters ==
    \A t \in Threads : \A u \in Threads :
        InGetLookup(t) => ~WritesSlots(u)

(***************************************************************************)
(* C8                                                                      *)
(***************************************************************************)

\* The program counters between Lock and Unlock of Put and Remove.
WriterSteps == {"PutSlot", "PutTerms", "RemoveLookup", "RemoveTerms", "RemoveUnlock"}

\* The program counters between RLock and RUnlock of Query and Subdirs.
ReaderSteps == {"QueryIds", "QueryResults", "QueryRUnlock",
                "SubdirsFind", "SubdirsFilter", "SubdirsRUnlock"}

\* C8: the steps of two mutations never interleave (at most one thread is
\* between Lock and Unlock, and the index outside a mutation is the one
\* whole Puts and Removes produce, in the order of their Lock), no Query or
\* Subdirs is in its traversal during a mutation, and the result a Query or
\* Subdirs returns is the one computed on that index of whole mutations.
C8_ReadsSeeWholeMutations ==
    /\ \A t \in Threads : \A u \in Threads :
          pc[t] \in WriterSteps /\ pc[u] \in WriterSteps => t = u
    /\ \A t \in Threads : pc[t] \in WriterSteps <=> mu.writer = t
    /\ \A t \in Threads : pc[t] \in ReaderSteps <=> t \in mu.readers
    /\ mu.readers # {} => mu.writer = NoThread
    /\ mu.writer = NoThread => Idx = lin
    /\ \A t \in Threads :
          /\ pc[t] = "QueryRUnlock" =>
                loc[t].ret \in Index_Query(lin, loc[t].q, loc[t].sortBy)
          /\ pc[t] = "SubdirsRUnlock" =>
                loc[t].ret = Index_Subdirs(lin, loc[t].importPath)

\* A Put that replaces a stored model is half done (the slot holds the new
\* model and the postings still hold a term of the old model alone) while
\* another thread has called Query or Subdirs and waits for the lock.
C8_Witness ==
    \E t \in Threads : \E u \in Threads :
        /\ pc[t] = "PutTerms"
        /\ pkgs[loc[t].id + 1] = newIpackage(loc[t].dpkg)
        /\ \E k \in DOMAIN loc[t].masks :
              /\ loc[t].masks[k] = removeMask
              /\ k \in DOMAIN terms
              /\ \E i \in 1..Len(terms[k]) : terms[k][i] = loc[t].id
        /\ pc[u] \in {"QueryRLock", "SubdirsRLock"}

(***************************************************************************)
(* C9                                                                      *)
(***************************************************************************)

\* The doc has more than one sentence: its first period is not its last
\* byte.
MoreThanOneSentence(doc) == Index(doc, ".") >= 0 /\ Index(doc, ".") < Len(doc) - 1

\* C9: a command with a name is indexed under its name, its final
\* import-path segment and its import: terms exactly when its Synopsis is
\* non-empty and its Doc has more than one sentence.
C9_DocumentedCommandIndexed ==
    \A c \in {s \in Stored(Idx) : s.IsCmd /\ s.Name # << >>} :
        (c.Synopsis # << >> /\ MoreThanOneSentence(c.Doc))
            <=> (\A t \in SearchStrings(c) : c.ImportPath \in QueryReturns(Idx, t))

(***************************************************************************)
(* C10                                                                     *)
(***************************************************************************)

\* C10: a stored package with Hide and a name has the project
\* term as its only term, and no query for its name, its final segment or
\* an import: term returns it.
C10_HiddenNotIndexed ==
    \A h \in {s \in Stored(Idx) : s.Hide /\ s.Name # << >>} :
        /\ packageTerms(h) = {makeTerm(StrProject \o h.ProjectRoot)}
        /\ \A t \in SearchStrings(h) : h.ImportPath \notin QueryReturns(Idx, t)

(***************************************************************************)
(* C11                                                                     *)
(***************************************************************************)

\* C11: for every import path Put and not removed since, Get returns the
\* model of the last Put of that path, with no error, placeholders with an
\* empty Name included.
C11_GetReturnsLatestPut ==
    \A p \in DOMAIN latest :
        Index_Get(Idx, p) = [dpkg |-> latest[p], err |-> NoError]

\* A placeholder with an empty Name and no terms is the last Put of r/a,
\* and r/a/b has been Put since; Get of r/a returns the placeholder.
C11_Witness ==
    /\ PathRA \in DOMAIN latest
    /\ latest[PathRA] = PkgDirA
    /\ packageTerms(PkgDirA) = {}
    /\ call.op = "Put"
    /\ call.importPath = PathRAB
    /\ Index_Get(Idx, PathRA).dpkg = PkgDirA

(***************************************************************************)
(* C12                                                                     *)
(***************************************************************************)

\* The import paths whose slot holds a model with a name.
NamedPaths(x) == {s.ImportPath : s \in {e \in Stored(x) : e.Name # << >>}}

\* C12: under every sort mode Query("all:") returns exactly once each
\* import path whose slot holds a model with a non-empty Name, and so no
\* removed path and no placeholder.
C12_AllIsEveryNamedEntryOnce ==
    \A m \in SortModes :
        \A rs \in Index_Query(Idx, StrAll, m) :
            /\ Len(rs) = Cardinality(ResultPaths(rs))
            /\ ResultPaths(rs) = NamedPaths(Idx)
            /\ ResultPaths(rs) \cap removed = {}
            /\ \A p \in DOMAIN latest :
                   latest[p].Name = << >> => p \notin ResultPaths(rs)

\* A placeholder and a named model are stored: "all:" returns the named
\* entry alone.
C12_Witness ==
    /\ Len(pkgs) = 2
    /\ PkgDirA \in Stored(Idx)
    /\ PkgLibB \in Stored(Idx)
    /\ QueryReturns(Idx, StrAll) = {PathRAB}

(***************************************************************************)
(* C13                                                                     *)
(***************************************************************************)

\* C13: each step of the loop of Subdirs strictly shortens a non-empty
\* path, so the loop ends; and for a path of which neither it nor any
\* ancestor has a "project:" key, Subdirs returns no result and a nil error.
C13_NoProjectNoSubdirs ==
    /\ \A d \in WalkPaths :
          \A k \in 1..Len(d) :
              Len(subdirsParent(SubSeq(d, 1, k))) < k
    /\ \A d \in WalkPaths :
          KeyedRoots(Idx, d) = {} =>
              /\ Index_Subdirs(Idx, d) = << >>
              /\ Index_SubdirsErr(Idx, d) = NoError

\* A named package of the empty project root is stored at r/a, no path on
\* the walk from r has a "project:" key, and Subdirs("r") returns nothing.
C13_Witness ==
    /\ PkgStdA \in Stored(Idx)
    /\ KeyedRoots(Idx, << "r" >>) = {}
    /\ makeTerm(StrProject) \in DOMAIN terms
    /\ Index_Subdirs(Idx, << "r" >>) = << >>

(***************************************************************************)
(* C14                                                                     *)
(***************************************************************************)

\* The slots and the path-to-ID map agree: every path has its own slot, and
\* a slot that holds a model holds one of the path that maps to it.
SlotsMatchIds ==
    /\ Len(pkgs) = Cardinality(DOMAIN ids)
    /\ \A p \in DOMAIN ids :
          /\ ids[p] + 1 \in 1..Len(pkgs)
          /\ ~pkgs[ids[p] + 1].isNil => pkgs[ids[p] + 1].result.ImportPath = p
    /\ \A p \in DOMAIN ids : \A r \in DOMAIN ids : ids[p] = ids[r] => p = r

\* One call keeps every ID, never shrinks the slot array, appends a slot
\* only for a path that had no ID, and as Remove changes neither the map
\* nor the slot count.
KeepsIds ==
    /\ \A p \in DOMAIN ids : p \in DOMAIN ids' /\ ids'[p] = ids[p]
    /\ Len(pkgs') >= Len(pkgs)
    /\ call'.op = "Remove" => ids' = ids /\ Len(pkgs') = Len(pkgs)
    /\ (call'.op = "Put" /\ call'.importPath \in DOMAIN ids) =>
           /\ ids' = ids
           /\ Len(pkgs') = Len(pkgs)
           /\ pkgs'[ids[call'.importPath] + 1].dpkg = call'.dpkg

\* C14: the ID of an import path never changes once assigned, Remove
\* leaves the path-to-ID map and the slot count alone, a later Put of the
\* path reuses its ID, the slot array never shrinks, and no slot holds a
\* model of a path other than the one that maps to it.
C14_IdsAreStable == []SlotsMatchIds /\ [][KeepsIds]_vars

\* Remove emptied the first slot and left its path's ID and the second
\* slot in place.
C14_Witness ==
    /\ call.op = "Remove"
    /\ call.old # NilPackage
    /\ Len(pkgs) = 2
    /\ call.importPath \in DOMAIN ids
    /\ ids[call.importPath] = 0
    /\ pkgs[1].isNil
    /\ ~pkgs[2].isNil

(***************************************************************************)
(* C15                                                                     *)
(***************************************************************************)

\* The non-test files of the call that parse, and the package names they
\* declare: the candidates.
CandidateFiles ==
    {f \in FileSet(req.files) : ~HasSuffix(f.Filename, StrTestGo) /\ f.parses}

Candidates == {f.Name : f \in CandidateFiles}

\* buildDoc has run: it returned, or it panicked (res.ret.err is Aborted).
Built == res.fn = "buildDoc"

\* C15: buildDoc returns the not-found error (and no package) exactly when
\* there is no candidate and no known child; with no candidate and known
\* children it returns a package with an empty Name and those children; and
\* it never returns a package with an empty Name and no children.  The only
\* error it returns is the not-found error.
C15_NotFoundOrPlaceholder ==
    Built =>
        /\ res.ret.err = ErrPackageNotFound <=> (Candidates = {} /\ req.children = {})
        /\ res.ret.err = ErrPackageNotFound => res.ret.pkg = NilPackage
        /\ res.ret.err = NoError => res.ret.pkg # NilPackage
        /\ res.ret.err \in {ErrPackageNotFound, NoError, Aborted}
        /\ (Candidates = {} /\ req.children # {}) =>
               /\ res.ret.pkg.Name = << >>
               /\ res.ret.pkg.Children = req.children
               /\ res.ret.pkg.ImportPath = req.importPath
        /\ res.ret.err = NoError =>
               ~(res.ret.pkg.Name = << >> /\ res.ret.pkg.Children = {})

\* The only files are a test file and one that does not parse, and a child
\* is known: buildDoc returned the placeholder.
C15_Witness ==
    /\ Built
    /\ FileSet(req.files) = {FileEmptyTest, FileBad}
    /\ req.children # {}
    /\ res.ret.err = NoError
    /\ res.ret.pkg.Name = << >>

(***************************************************************************)
(* C16                                                                     *)
(***************************************************************************)

\* The score of a candidate: 3 if its name is a suffix of the import path,
\* else 2 if its name is not main, else 1.
candidateScore(importPath, name) ==
    IF HasSuffix(importPath, name) THEN 3 ELSE IF name # StrMain THEN 2 ELSE 1

\* C16: in whatever order the candidates are visited, buildDoc selects a
\* candidate whose score is the greatest among the candidates; of foo
\* and main at an import path ending in /foo it selects foo.
C16_SelectsBestCandidate ==
    (Built /\ Candidates # {}) =>
        /\ ~res.sel.isNil
        /\ res.sel.pkg \in Candidates
        /\ \A c \in Candidates :
               candidateScore(req.importPath, c)
                   <= candidateScore(req.importPath, res.sel.pkg)
        /\ res.sel.score = candidateScore(req.importPath, res.sel.pkg)
        /\ ({StrFoo, StrMain} \subseteq Candidates
                /\ HasSuffix(req.importPath, << "/" >> \o StrFoo)) =>
               res.sel.pkg = StrFoo

\* At an import path ending in /foo the range visited main, then
\* documentation, then foo, and foo was selected.
C16_Witness ==
    /\ Built
    /\ HasSuffix(req.importPath, << "/" >> \o StrFoo)
    /\ res.pkgOrder = << StrMain, StrDocumentation, StrFoo >>
    /\ res.sel.pkg = StrFoo

(***************************************************************************)
(* C17                                                                     *)
(***************************************************************************)

\* The package returned lists no exported const, var, func or type.
NoBuiltExports(p) == p.Consts = {} /\ p.Vars = {} /\ p.Funcs = {} /\ p.Types = {}

\* C17 as claimed: for a package built from a chosen candidate, Hide is
\* (Name is main and the application-main eligibility buildDoc computed
\* holds) or (no exported declaration and not IsCmd), Name being the name
\* after the command rename; so a package without exports that is no
\* command has Hide, and a command does not.
C17_HideRule ==
    (Built /\ ~res.sel.isNil /\ res.ret.err = NoError) =>
        /\ res.ret.pkg.Hide <=>
               \/ res.ret.pkg.Name = StrMain /\ res.hasApplicationMain
               \/ NoBuiltExports(res.ret.pkg) /\ ~res.ret.pkg.IsCmd
        /\ (NoBuiltExports(res.ret.pkg) /\ ~res.ret.pkg.IsCmd) => res.ret.pkg.Hide
        /\ res.ret.pkg.IsCmd => ~res.ret.pkg.Hide

\* C17 as amended: the same rule; a package without exports that is no
\* command has Hide; and a command has Hide exactly when the last element
\* of its import path, the name it is renamed to, is main.
C17_HideRuleByName ==
    (Built /\ ~res.sel.isNil /\ res.ret.err = NoError) =>
        /\ res.ret.pkg.Hide <=>
               \/ res.ret.pkg.Name = StrMain /\ res.hasApplicationMain
               \/ NoBuiltExports(res.ret.pkg) /\ ~res.ret.pkg.IsCmd
        /\ (NoBuiltExports(res.ret.pkg) /\ ~res.ret.pkg.IsCmd) => res.ret.pkg.Hide
        /\ res.ret.pkg.IsCmd =>
               (res.ret.pkg.Hide <=> pathBase(req.importPath) = StrMain)

\* A package main with an exported func and a func main() is hidden.
C17_Witness ==
    /\ Built
    /\ res.ret.err = NoError
    /\ FileSet(req.files) = {FileMain, FileRecv}
    /\ res.ret.pkg.Name = StrMain
    /\ res.ret.pkg.Funcs # {}
    /\ res.hasApplicationMain
    /\ res.ret.pkg.Hide

(***************************************************************************)
(* C18                                                                     *)
(***************************************************************************)

\* The files a candidate contributes: the non-test files of its name that
\* parse, of several under one file name the last of the call.
GroupFiles(name) ==
    {req.files[i] : i \in {k \in DOMAIN req.files :
        /\ req.files[k] \in CandidateFiles
        /\ req.files[k].Name = name
        /\ ~\E j \in DOMAIN req.files :
               /\ j > k
               /\ req.files[j] \in CandidateFiles
               /\ req.files[j].Name = name
               /\ req.files[j].Filename = req.files[k].Filename}}

\* The files the chosen candidate contributes.
ChosenFiles == GroupFiles(res.sel.pkg)

\* The chosen candidate is named documentation, contributes exactly one
\* file, of base name doc.go, has no exported const, var, func or type, and
\* application-main eligibility holds.
IsCommand ==
    /\ res.sel.pkg = StrDocumentation
    /\ Cardinality(ChosenFiles) = 1
    /\ \A f \in ChosenFiles : pathSplitFile(f.Filename) = StrDocGo
    /\ res.noExports
    /\ res.hasApplicationMain

\* C18: IsCmd is true, and Name the final segment of the import path (its
\* last element, a trailing slash aside), exactly when the chosen candidate is a command by the rule above;
\* otherwise IsCmd is false and Name is the declared package name.  isCmd
\* and pdoc.Name are set so in every run, and a Package returned has them
\* and lists no export exactly when noExports holds.
C18_CommandDetection ==
    (Built /\ ~res.sel.isNil) =>
        /\ res.isCmd <=> IsCommand
        /\ res.name = IF IsCommand THEN pathBase(req.importPath) ELSE res.sel.pkg
        /\ res.ret.err = NoError =>
               /\ res.ret.pkg.IsCmd = res.isCmd
               /\ res.ret.pkg.Name = res.name
               /\ NoBuiltExports(res.ret.pkg) <=> res.noExports

\* doc.go of package documentation beside a package main with func main()
\* at r/x: the package returned is the command x.
C18_Witness ==
    /\ Built
    /\ FileSet(req.files) = {FileDoc, FileMain}
    /\ res.ret.err = NoError
    /\ res.ret.pkg.IsCmd
    /\ res.ret.pkg.Name = << "x" >>

(***************************************************************************)
(* C19                                                                     *)
(***************************************************************************)

\* The files of the main candidate group hold a top-level function, no
\* method, named main without parameters and results.
HasMainFunc ==
    \E f \in GroupFiles(StrMain) :
        \E j \in 1..Len(f.Decls) :
            /\ f.Decls[j].node = "FuncDecl"
            /\ f.Decls[j].recv = << >>
            /\ f.Decls[j].name = StrMain
            /\ f.Decls[j].params = 0
            /\ f.Decls[j].results = 0

\* C19: the application-main eligibility buildDoc computes is true exactly
\* when the main candidate group holds a top-level function main() that is
\* no method, in whatever order the files are visited.
C19_MainEligibility ==
    (Built /\ ~res.sel.isNil) => (res.hasApplicationMain <=> HasMainFunc)

(***************************************************************************)
(* C20                                                                     *)
(***************************************************************************)

\* C20: synopsis returns at most 400 bytes, a prefix of the text it
\* collected, and when it cuts, it does not cut before a continuation byte
\* of a multi-byte UTF-8 character.
C20_SynopsisKeepsRunes ==
    res.fn = "synopsis" =>
        /\ Len(res.ret) <= synopsisMax
        /\ res.ret = SubSeq(res.buf, 1, Len(res.ret))
        /\ Len(res.ret) < Len(res.buf) => ~IsContinuation(res.buf[Len(res.ret) + 1])

(***************************************************************************)
(* C21                                                                     *)
(***************************************************************************)

\* The non-test files of the call that parser.ParseFile rejects.
FailedFiles ==
    {f \in FileSet(req.files) : ~HasSuffix(f.Filename, StrTestGo) /\ ~f.parses}

\* C21: when a non-test file parses and another does not, buildDoc returns
\* no error and a Package built from the files that parsed, and that Package
\* has the parse failure in its Errors.
C21_PartialBuildRecorded ==
    (Built /\ CandidateFiles # {} /\ FailedFiles # {}) =>
        /\ res.ret.err = NoError
        /\ res.ret.pkg # NilPackage
        /\ res.ret.pkg.Files =
               {pathSplitFile(f.Filename) : f \in ChosenFiles}
        /\ "Errors" \in DOMAIN res.ret.pkg
        /\ res.ret.pkg.Errors # << >>

(***************************************************************************)
(* C22                                                                     *)
(***************************************************************************)

\* s is sorted and has no duplicates.
StrictlyAscending(s) == \A i \in 1..(Len(s) - 1) : s[i] < s[i + 1]

Elems(s) == {s[i] : i \in 1..Len(s)}

\* C22 as claimed: s.add(v).remove(v) equals s, v in s or not.
C22_AddRemoveAlways ==
    res.fn = "addRemove" => res.ret = req.ids

\* C22 as amended: for v not in s, s.add(v) is the sorted set with v added
\* and s.add(v).remove(v) equals s; for v in s, s.add(v) equals s and
\* s.add(v).remove(v) is s without v.
C22_AddRemoveRestores ==
    res.fn = "addRemove" =>
        /\ StrictlyAscending(res.added)
        /\ Elems(res.added) = Elems(req.ids) \cup {req.id}
        /\ req.id \notin Elems(req.ids) => res.ret = req.ids
        /\ req.id \in Elems(req.ids) =>
               /\ res.added = req.ids
               /\ res.ret = Ascending(Elems(req.ids) \ {req.id})

\* {1, 3}.add(2).remove(2) ran: 2 went in between and came out again.
C22_Witness ==
    /\ res.fn = "addRemove"
    /\ req.ids = << 1, 3 >>
    /\ req.id = 2
    /\ res.added = << 1, 2, 3 >>
    /\ res.ret = << 1, 3 >>

(***************************************************************************)
(* C23                                                                     *)
(***************************************************************************)

\* C23: a.intersect(empty, b) is the ascending list of exactly the
\* identifiers in both a and b; so a.intersect(empty, a) is a, and
\* b.intersect(empty, a) gives the same list; and a.intersect(a[:0], b),
\* which writes the result over a's own array, gives the same list too.
C23_IntersectIsCommon ==
    res.fn = "intersect" =>
        /\ StrictlyAscending(res.ret)
        /\ Elems(res.ret) = Elems(req.ids) \cap Elems(req.other)
        /\ req.ids = req.other => res.ret = req.ids
        /\ res.swapped = res.ret
        /\ res.shared = res.ret

\* {0, 1, 2, 3} was intersected with {1, 3}: both cursors moved past
\* elements the other set lacks, and the shared destination was written
\* behind the read cursor.
C23_Witness ==
    /\ res.fn = "intersect"
    /\ req.ids = << 0, 1, 2, 3 >>
    /\ req.other = << 1, 3 >>
    /\ res.ret = << 1, 3 >>
    /\ res.shared = << 1, 3 >>

(***************************************************************************)
(* C24                                                                     *)
(***************************************************************************)

\* C24: after any sequence of Put and Remove calls every postings list of
\* the term table is strictly ascending in ID: sorted, without duplicates.
C24_PostingsSorted ==
    \A t \in DOMAIN terms : StrictlyAscending(terms[t])

\* A Put replaced a model by one with a term the old model lacked, and the
\* ID went in front of a larger ID that the postings of the term held.
C24_Witness ==
    /\ call.op = "Put"
    /\ call.old # NilPackage
    /\ \E t \in packageTerms(call.dpkg) \ packageTerms(call.old) :
          /\ Len(terms[t]) >= 2
          /\ terms[t][1] = ids[call.importPath]

(***************************************************************************)
(* C25                                                                     *)
(***************************************************************************)

\* C25: an item from a miss is written with Add and an item from a hit or a
\* sentinel read with CompareAndSwap, and a cacheSet that uses the item of
\* a cacheGet, with a cacheClear run in between, does not store its value.
C25_ClearedNotStored ==
    \A h \in Handlers :
        hnd[h].pc = "done" =>
            /\ hnd[h].how = "Add" <=> ~hnd[h].item.hasValue
            /\ hnd[h].how = "CompareAndSwap" <=> hnd[h].item.hasValue
            /\ hnd[h].cleared => ~hnd[h].stored

\* C25 but for the two ways of storing that the code states: with a
\* cacheClear run in between, the cacheSet stores its value only by the Set
\* of the dev server, or by an Add after the key's entry left memcache
\* again.  C25_ClearedNotStored implies it; only a cacheClear whose
\* memcache.Set failed violates it.
C25_ClearedNotStoredWhileKept ==
    \A h \in Handlers :
        (hnd[h].pc = "done" /\ hnd[h].cleared /\ hnd[h].stored) =>
            \/ hnd[h].how = "Set"
            \/ hnd[h].how = "Add" /\ hnd[h].lapsed

(***************************************************************************)
(* C26                                                                     *)
(***************************************************************************)

\* The terms the table has a key for and the terms of every model that may
\* be Put.
AllTerms == DOMAIN terms \cup UNION {packageTerms(p) : p \in Packages}

\* C26: an ID is in the postings of a term if and only if it is the ID of a
\* slot that holds a model and the term is one of those addPackageTerms
\* derives from that model.
C26_PostingsMatchSlots ==
    \A t \in AllTerms :
        /\ Elems(postings(Idx, t)) \subseteq 0..(Len(pkgs) - 1)
        /\ \A i \in 0..(Len(pkgs) - 1) :
              (i \in Elems(postings(Idx, t)))
                  <=> (~pkgs[i + 1].isNil /\ t \in packageTerms(pkgs[i + 1].dpkg))

\* A model was removed whose term another stored model shares: the ID of
\* the removed path left the postings of the term, the other ID stayed.
C26_Witness ==
    /\ call.op = "Remove"
    /\ call.old # NilPackage
    /\ \E t \in packageTerms(call.old) :
          /\ postings(Idx, t) # << >>
          /\ ids[call.importPath] \notin Elems(postings(Idx, t))

(***************************************************************************)
(* C27                                                                     *)
(***************************************************************************)

\* The index after the step.
IdxNext == [pkgs |-> pkgs', ids |-> ids', terms |-> terms']

\* The ID the step's call works on, where its path has one.
CalledId == ids'[call'.importPath]

\* The step touches no slot, no ID and no postings membership but those of
\* the ID of the call's import path.
TouchesOneId ==
    /\ \A u \in DOMAIN ids : u \in DOMAIN ids' /\ ids'[u] = ids[u]
    /\ DOMAIN ids' \subseteq DOMAIN ids \cup {call'.importPath}
    /\ Len(pkgs') >= Len(pkgs)
    /\ \A i \in 1..Len(pkgs') :
          (call'.importPath \in DOMAIN ids' /\ i = CalledId + 1)
              \/ (i <= Len(pkgs) /\ pkgs'[i] = pkgs[i])
    /\ \A t \in DOMAIN terms \cup DOMAIN terms' :
          \A i \in Elems(postings(Idx, t)) \cup Elems(postings(IdxNext, t)) :
              (call'.importPath \in DOMAIN ids' /\ i = CalledId)
                  \/ (i \in Elems(postings(Idx, t)) <=> i \in Elems(postings(IdxNext, t)))

\* The import paths of rs other than the path of the step's call.
OtherPaths(rs) == ResultPaths(rs) \ {call'.importPath}

\* Get of every other path is the same before and after the step.
SameGet ==
    \A B \in ImportPaths \ {call'.importPath} :
        Index_Get(IdxNext, B) = Index_Get(Idx, B)

\* The queries of at most two fields, and "all:".  Query reads fields[0] and
\* fields[1] alone (lines 326-329), so a longer query selects what its first
\* two fields select.
FrameQueries == {q \in Queries : Len(Fields(q)) <= 2}

\* Every Query result holds the same other paths before and after the step.
SameQueries ==
    \A q \in FrameQueries :
        OtherPaths(queryUnsorted(Idx, q)) = OtherPaths(queryUnsorted(IdxNext, q))

\* The result of Subdirs(d) holds the same other paths before and after the
\* step.
SameSubdirs(d) ==
    OtherPaths(Index_Subdirs(Idx, d)) = OtherPaths(Index_Subdirs(IdxNext, d))

\* A Remove of a path that is not stored changes nothing.
IdleRemoveKeeps ==
    (call'.op = "Remove" /\ call'.old = NilPackage) => IdxNext = Idx

\* C27 as claimed: a Put or Remove touches only the slot and postings
\* membership of the ID of its path; Get of every other path B and the
\* presence of B in every Query and Subdirs result stay the same; and a
\* Remove of a path not stored changes nothing.
C27_Frame ==
    [][/\ TouchesOneId
       /\ SameGet
       /\ SameQueries
       /\ \A d \in SubdirPaths : SameSubdirs(d)
       /\ IdleRemoveKeeps]_vars

\* C27 as amended: as claimed for Get and Query; for Subdirs(d) the other
\* paths of the result stay the same when the step adds no "project:" key
\* for d or a path above it, so that Subdirs finds the same project root.
C27_FrameSameRoot ==
    [][/\ TouchesOneId
       /\ SameGet
       /\ SameQueries
       /\ \A d \in SubdirPaths :
             KeyedRoots(IdxNext, d) = KeyedRoots(Idx, d) => SameSubdirs(d)
       /\ IdleRemoveKeeps]_vars

\* r/a was Put and removed, and a second Remove of it found nothing to
\* remove, while r/a/b is stored: r/a/b is returned by Get, by a Query and
\* by Subdirs("r").
C27_Witness ==
    /\ call.op = "Remove"
    /\ call.old = NilPackage
    /\ call.importPath = PathRA
    /\ call.importPath \in DOMAIN ids
    /\ Index_Get(Idx, PathRAB).err = NoError
    /\ PathRAB \in SubdirsReturns(Idx, << "r" >>)
    /\ \E q \in FrameQueries : q # StrAll /\ PathRAB \in ResultPaths(queryUnsorted(Idx, q))

(***************************************************************************)
(* C28                                                                     *)
(***************************************************************************)

\* C28: no two distinct import paths share an ID, however many distinct
\* paths are Put: the slot count converted to identifier is never an ID
\* another path has.
C28_IdsAreDistinct ==
    \A p \in DOMAIN pathIds, q \in DOMAIN pathIds :
        p # q => pathIds[p] # pathIds[q]

(***************************************************************************)
(* C29                                                                     *)
(***************************************************************************)

\* C29 as claimed: no Package buildDoc returns has both IsCmd and Hide.
C29_CmdNotHidden ==
    (Built /\ res.ret.err = NoError) => ~(res.ret.pkg.IsCmd /\ res.ret.pkg.Hide)

\* C29 as amended: a Package with IsCmd is never built for an import path
\* that has the suffix main, the main candidate scoring 3 there; and it has
\* Hide exactly when the last element of the import path is main all the
\* same, which takes a slash after it.
C29_CmdHiddenBehindSlash ==
    (Built /\ res.ret.err = NoError /\ res.ret.pkg.IsCmd) =>
        /\ ~HasSuffix(req.importPath, StrMain)
        /\ res.ret.pkg.Hide <=> pathBase(req.importPath) = StrMain
        /\ res.ret.pkg.Hide => req.importPath[Len(req.importPath)] = "/"

\* doc.go of package documentation beside a package main with func main()
\* at r/main/: no candidate is a suffix of the path, documentation was
\* chosen, and the command returned is named main and hidden.
C29_Witness ==
    /\ Built
    /\ FileSet(req.files) = {FileDoc, FileMain}
    /\ req.importPath = << "r", "/" >> \o StrMain \o << "/" >>
    /\ res.sel.pkg = StrDocumentation
    /\ res.ret.pkg.IsCmd
    /\ res.ret.pkg.Name = StrMain
    /\ res.ret.pkg.Hide

(***************************************************************************)
(* C30                                                                     *)
(***************************************************************************)

\* C30: buildDoc does not abort while it renders the examples: the printed
\* body of every example whose name matches is at least 4 bytes long, an
\* empty body too, so that the slice code[2 : len(code)-2] of getExamples is
\* within bounds.
C30_ExamplesNeverAbort ==
    /\ res.fn = "getExamples" =>
           /\ \A i \in 1..Len(req.examples) :
                 req.examples[i].Name = req.name =>
                     Len(printNode(req.examples[i].Body)) >= 4
           /\ ~res.ret.panics
    /\ Built =>
           /\ \A i \in 1..Len(res.examples) :
                 Len(printNode(res.examples[i].Body)) >= 4
           /\ res.ret.err # Aborted

====
